---- MODULE Spec2Model ----
(***************************************************************************)
(* Model of the chunked file reader of blobstash                           *)
(* (pkg/filetree/reader/filereader): a File presents the bytes of a list   *)
(* of content-addressed chunks (lmrange, keyed by cumulative end offset)   *)
(* through Read / ReadAt / Seek, fetching chunks from a BlobStore through  *)
(* an optional LRU cache.                                                  *)
(***************************************************************************)
EXTENDS Integers, Sequences, FiniteSets, TLC

\* ---------------------------------------------------------------- bounds
MaxChunks == 3      \* longest chunk list explored
MaxLen    == 3      \* longest caller buffer len(p) explored
MaxCap    == 2      \* largest LRU capacity explored (0 stands for a nil cache)
MaxPast   == 1      \* how far outside [0, size] offsets and cursors are explored
MaxPasses == 2      \* sequential passes over the file in SpecPass

\* ------------------------------------------------------- program constants
SEEK_SET == 0
SEEK_CUR == 1
SEEK_END == 2

\* ------------------------------------------------------------- blob store
\* The chunk hashes known to the blob store and the bytes stored under each.
Hashes == {"A", "B", "C"}

Blob(h) == CASE h = "A" -> <<1, 2>>
             [] h = "B" -> <<3>>
             [] h = "C" -> <<4, 5>>

\* The errors a BlobStore.Get may answer with: an error of the store, or
\* the cancellation of the context the call carries.  The reader never
\* looks into the error, so two stand for all.
Causes == {"Transient", "Cancelled"}

\* The behaviour of the source during one call: no fault, or one hash
\* whose Get fails with a cause.
NoFault == [hash |-> "", cause |-> "nil"]

Faults(hs) == {NoFault} \cup [hash : hs, cause : Causes]

\* bs.Get(ctx, hash)
bsGet(src, h) ==
    IF src.hash = h
    THEN [err |-> src.cause, bytes |-> <<>>]
    ELSE [err |-> "nil", bytes |-> Blob(h)]

\* ------------------------------------------------------------------ errors
Err(kind, hash, cause) == [kind |-> kind, hash |-> hash, cause |-> cause]
ErrNil   == Err("nil", "", "nil")
ErrEOF   == Err("EOF", "", "nil")
ErrPanic == Err("panic", "", "nil")

\* --------------------------------------------------------------- file meta
RECURSIVE SumLen(_, _)
SumLen(hs, i) == IF i = 0 THEN 0 ELSE SumLen(hs, i - 1) + Len(Blob(hs[i]))

\* meta.FileRefs() of a well-formed node: one (Index, Value) per chunk,
\* Index being the cumulative end offset of the chunk.
FileRefs(hs) == [i \in 1..Len(hs) |-> [Index |-> SumLen(hs, i), Value |-> hs[i]]]

RECURSIVE SeqsUpTo(_)
SeqsUpTo(n) ==
    IF n = 0 THEN {<<>>}
    ELSE LET S == SeqsUpTo(n - 1)
         IN  S \cup {Append(s, h) : s \in {t \in S : Len(t) = n - 1}, h \in Hashes}

\* A hash occurs in hs only after the hashes before it in HashOrder have
\* occurred: one chunk list for each pattern of repeated hashes.
HashOrder == <<"A", "B", "C">>

InOrder(hs) ==
    \A i \in 1..Len(hs) : \A k \in 2..Len(HashOrder) :
        hs[i] = HashOrder[k] => \E j \in 1..(i - 1) : hs[j] = HashOrder[k - 1]

\* The chunk lists explored (a hash may occur several times in a file).
ChunkLists == {hs \in SeqsUpTo(MaxChunks) : InOrder(hs)}

\* ------------------------------------------------------------------- state
VARIABLES
    size,        \* File.size
    lmrange,     \* File.lmrange: sequence of IndexValue (Index, Value, I)
    offset,      \* File.offset, the cursor
    lruCap,      \* capacity of File.lru; 0 when the File was built with a nil cache
    lru,         \* File.lru: entries (key, value), most recently used first
    ret,         \* the last call and what it returned
    calls,       \* the ReadAt calls in flight on the File, one per goroutine
    out,         \* SpecPass: bytes returned by the Reads of the current pass
    passNo,      \* SpecPass: number of the current pass
    passFetches, \* SpecPass: source fetches of the current pass
    passDone     \* SpecPass: the current pass has reported end-of-file

\* The FUSE file system over the reader (package main of the mount).
VARIABLES
    file,        \* one file node: mu (locked), node (loaded), fds, h (temp of the rw handle, 0 for nil)
    tmps,        \* the temp files made for the file: "open", "closed" or "removed"
    handles,     \* the handles returned to the kernel: kind, temp, open until released
    fret         \* the last FUSE call and what it returned

fuseVars == <<file, tmps, handles, fret>>

\* The S3 replication backend.
VARIABLES
    queues,         \* uploadQueue, deleteQueue, downloadQueue: items (id, hash), oldest first
    downloadIndex,  \* S3Backend.downloadIndex: hash -> id of its queue item, 0 for no entry
    downloadMutex,  \* S3Backend.downloadMutex: its holder, "" when unlocked
    workers,        \* the three worker goroutines: pc, item, the calls of deqFunc, stops received
    wg,             \* S3Backend.wg: the wait group's counter
    stop,           \* Close and its sends on S3Backend.stop: pc, sends received
    closed,         \* the queues and the index have been closed
    remote,         \* ids of the items whose object is still under tmp/ in the bucket
    nextId,         \* number of items enqueued so far, plus one
    s3ret           \* the last BlobWaitingForDownload and what it returned

s3Vars == <<queues, downloadIndex, downloadMutex, workers, wg, stop, closed, remote,
            nextId, s3ret>>

\* The stash garbage collector.
VARIABLES
    gc           \* one run of GC: pc, the script's calls of mark, refs, remoteRefs, what it did

extVars == <<fuseVars, s3Vars, gc>>

vars == <<size, lmrange, offset, lruCap, lru, ret, calls, out, passNo, passFetches,
          passDone, extVars>>

passVars == <<calls, out, passNo, passFetches, passDone, extVars>>

\* ------------------------------------------------------------- small helpers
Min(a, b) == IF a < b THEN a ELSE b

RECURSIVE Concat(_, _)
Concat(refs, i) == IF i = 0 THEN <<>> ELSE Concat(refs, i - 1) \o Blob(refs[i].Value)

\* The bytes of the file: all chunk contents in declaration order.
FileBytes == Concat(lmrange, Len(lmrange))

\* The file bytes in [o, o + n).
Range(o, n) == SubSeq(FileBytes, o + 1, o + n)

NumChunks == Len(lmrange)

ChunkHashes == {lmrange[i].Value : i \in 1..Len(lmrange)}

\* -------------------------------------------------------------- the LRU cache
lruKeys(c) == {c[i].key : i \in 1..Len(c)}

lruPos(c, k) == CHOOSE i \in 1..Len(c) : c[i].key = k

lruRemoveAt(c, i) == SubSeq(c, 1, i - 1) \o SubSeq(c, i + 1, Len(c))

\* Fault seeded into lruGet: the value handed back is the front entry's.
lruGet_frontValue(c, k) ==
    IF k \in lruKeys(c)
    THEN LET i == lruPos(c, k)
         IN  [ok |-> TRUE, value |-> c[1].value, lru |-> <<c[i]>> \o lruRemoveAt(c, i)]
    ELSE [ok |-> FALSE, value |-> <<>>, lru |-> c]

\* Fault seeded into lruGet: a hit leaves the recency order as it is.
lruGet_noRefresh(c, k) ==
    IF k \in lruKeys(c)
    THEN [ok |-> TRUE, value |-> c[lruPos(c, k)].value, lru |-> c]
    ELSE [ok |-> FALSE, value |-> <<>>, lru |-> c]

\* lru.Get(key): the value if present, the entry becoming most recently used.
lruGet(c, k) ==
    IF k \in lruKeys(c)
    THEN LET i == lruPos(c, k)
         IN  [ok |-> TRUE, value |-> c[i].value, lru |-> <<c[i]>> \o lruRemoveAt(c, i)]
    ELSE [ok |-> FALSE, value |-> <<>>, lru |-> c]

\* Fault seeded into lruRemoveOldest: the newest entry goes.
lruRemoveOldest_newest(c) == SubSeq(c, 2, Len(c))

\* The entry removed when the capacity is exceeded: the oldest one.
lruRemoveOldest(c) == SubSeq(c, 1, Len(c) - 1)

\* Fault seeded into lruAdd: a key not yet present is not inserted.
lruAdd_dropsNew(c, cap, k, v) ==
    IF k \in lruKeys(c)
    THEN <<[key |-> k, value |-> v]>> \o lruRemoveAt(c, lruPos(c, k))
    ELSE c

\* Fault seeded into lruAdd: nothing is evicted.
lruAdd_noEvict(c, cap, k, v) ==
    LET e == [key |-> k, value |-> v] IN
    IF k \in lruKeys(c)
    THEN <<e>> \o lruRemoveAt(c, lruPos(c, k))
    ELSE <<e>> \o c

\* Fault seeded into lruAdd: the bytes cached lose their last byte.
lruAdd_truncates(c, cap, k, v) ==
    LET e == [key |-> k, value |-> SubSeq(v, 1, Len(v) - 1)] IN
    IF k \in lruKeys(c)
    THEN <<e>> \o lruRemoveAt(c, lruPos(c, k))
    ELSE LET d == <<e>> \o c
         IN  IF Len(d) > cap THEN lruRemoveOldest(d) ELSE d

\* lru.Add(key, value): the entry becomes most recently used; an existing
\* key has its value replaced; beyond the capacity the oldest entry goes.
lruAdd(c, cap, k, v) ==
    LET e == [key |-> k, value |-> v] IN
    IF k \in lruKeys(c)
    THEN <<e>> \o lruRemoveAt(c, lruPos(c, k))
    ELSE LET d == <<e>> \o c
         IN  IF Len(d) > cap THEN lruRemoveOldest(d) ELSE d

\* ------------------------------------------------------------------- the index
\* f.trie.Successor(uint64(offset)): the entry with the smallest key equal
\* to or greater than the offset, 0 (nil) when there is none.  A negative
\* offset converts to a uint64 above every key.
Successor(o) ==
    LET cands == {i \in 1..Len(lmrange) : lmrange[i].Index >= o} IN
    IF o < 0 \/ cands = {} THEN 0
    ELSE CHOOSE i \in cands :
            \A j \in cands : \/ lmrange[i].Index < lmrange[j].Index
                             \/ (lmrange[i].Index = lmrange[j].Index /\ i >= j)

\* ------------------------------------------------------------ File.read
\* Fault seeded into getChunk: what a failed Get handed back is cached.
getChunk_cachesFailure(c, src, h) ==
    IF lruCap # 0
    THEN LET g == lruGet(c, h) IN
         IF g.ok
         THEN [err |-> "nil", bytes |-> g.value, lru |-> g.lru, fetched |-> <<>>]
         ELSE LET b == bsGet(src, h) IN
              [err |-> b.err, bytes |-> b.bytes,
               lru |-> lruAdd(g.lru, lruCap, h, b.bytes), fetched |-> <<h>>]
    ELSE LET b == bsGet(src, h) IN
         [err |-> b.err, bytes |-> b.bytes, lru |-> c, fetched |-> <<h>>]

\* Fault seeded into getChunk: a Get that failed is issued a second time.
getChunk_retries(c, src, h) ==
    IF lruCap # 0
    THEN LET g == lruGet(c, h) IN
         IF g.ok
         THEN [err |-> "nil", bytes |-> g.value, lru |-> g.lru, fetched |-> <<>>]
         ELSE LET b == bsGet(src, h) IN
              IF b.err # "nil"
              THEN [err |-> b.err, bytes |-> <<>>, lru |-> g.lru, fetched |-> <<h, h>>]
              ELSE [err |-> "nil", bytes |-> b.bytes,
                    lru |-> lruAdd(g.lru, lruCap, h, b.bytes), fetched |-> <<h>>]
    ELSE LET b == bsGet(src, h) IN
         [err |-> b.err, bytes |-> b.bytes, lru |-> c,
          fetched |-> IF b.err # "nil" THEN <<h, h>> ELSE <<h>>]

\* One chunk access of the loop body: the cache first when there is one,
\* the source on a miss, the fetched bytes then being added to the cache.
getChunk(c, src, h) ==
    IF lruCap # 0
    THEN LET g == lruGet(c, h) IN
         IF g.ok
         THEN [err |-> "nil", bytes |-> g.value, lru |-> g.lru, fetched |-> <<>>]
         ELSE LET b == bsGet(src, h) IN
              IF b.err # "nil"
              THEN [err |-> b.err, bytes |-> <<>>, lru |-> g.lru, fetched |-> <<h>>]
              ELSE [err |-> "nil", bytes |-> b.bytes,
                    lru |-> lruAdd(g.lru, lruCap, h, b.bytes), fetched |-> <<h>>]
    ELSE LET b == bsGet(src, h) IN
         [err |-> b.err, bytes |-> b.bytes, lru |-> c, fetched |-> <<h>>]

\* Fault seeded into foffsetOf: the offset is not translated into the chunk.
foffsetOf_untranslated(off, Index, blen) == 0

\* The start of the slice taken from a chunk of blen bytes ending at Index:
\* the blob's start offset is computed from the fetched length, and only a
\* non-zero offset is translated.
foffsetOf(off, Index, blen) ==
    IF off # 0 THEN off - (Index - blen) ELSE 0

\* Fault seeded into needsMore: the slice start is left out.
needsMore_ignoresStart(rem, blen, foffset) == rem > blen

\* Whether what remains to be read (rem = cnt - written) is more than the
\* chunk has from foffset on.
needsMore(rem, blen, foffset) == rem > blen - foffset

\* What a call of read hands back: err, the buffer, the cache as the call
\* leaves it, the hashes asked of the source and the chunk positions
\* (IndexValue.I, counted from 1) accessed, both in order.
readRet(err, buf, st) ==
    [err |-> err, buf |-> buf, lru |-> st.lru,
     fetched |-> st.fetched, accessed |-> st.accessed]

\* Fault seeded into nextChunk: the loop steps over a chunk.
nextChunk_skips(i) == i + 2

\* The position the range loop over f.lmrange[tiv.I:] takes after i.
nextChunk(i) == i + 1

\* Fault seeded into reachedCnt: the loop never stops on the count.
reachedCnt_never(written, cnt) == FALSE

\* The test that ends the loop after a chunk: written == cnt.
reachedCnt(written, cnt) == written = cnt

\* The loop over f.lmrange[tiv.I:], from position i on; st carries the
\* locals buf, written, offset and the cache.
RECURSIVE readLoop(_, _, _, _)
readLoop(src, cnt, i, st) ==
    IF i > Len(lmrange) THEN readRet(ErrNil, st.buf, st)
    ELSE
    LET iv == lmrange[i] IN
    IF st.offset > iv.Index THEN readLoop(src, cnt, nextChunk(i), st)
    ELSE
    LET g   == getChunk(st.lru, src, iv.Value)
        st1 == [st EXCEPT !.lru = g.lru,
                          !.fetched = st.fetched \o g.fetched,
                          !.accessed = Append(st.accessed, i)]
    IN
    IF g.err # "nil"
    THEN readRet(Err("FetchFailed", iv.Value, g.err), <<>>, st1)
    ELSE
    LET bbuf    == g.bytes
        foffset == foffsetOf(st.offset, iv.Index, Len(bbuf))
        rem     == cnt - st.written
    IN
    IF needsMore(rem, Len(bbuf), foffset)
    THEN \* bbuf[foffset:]
         IF foffset < 0 \/ foffset > Len(bbuf)
         THEN readRet(ErrPanic, <<>>, st1)
         ELSE LET st2 == [st1 EXCEPT
                             !.buf = st.buf \o SubSeq(bbuf, foffset + 1, Len(bbuf)),
                             !.written = st.written + (Len(bbuf) - foffset),
                             !.offset = 0]
              IN  IF reachedCnt(st2.written, cnt)
                  THEN readRet(ErrNil, st2.buf, st2)
                  ELSE readLoop(src, cnt, nextChunk(i), st2)
    ELSE \* bbuf[foffset : foffset+cnt-written]
         IF foffset + rem > Len(bbuf) \/ foffset < 0 \/ rem < 0
         THEN readRet(ErrPanic, <<>>, st1)
         ELSE LET st2 == [st1 EXCEPT
                             !.buf = st.buf \o SubSeq(bbuf, foffset + 1, foffset + rem),
                             !.written = st.written + rem,
                             !.offset = 0]
              IN  IF st2.written # cnt
                  THEN readRet(ErrPanic, <<>>, st2)
                  ELSE IF reachedCnt(st2.written, cnt)
                  THEN readRet(ErrNil, st2.buf, st2)
                  ELSE readLoop(src, cnt, nextChunk(i), st2)

\* f.read(offset, cnt) with the cache c and the source behaving as src.
read(c, src, off, cnt0) ==
    LET cnt == IF cnt0 < 0 \/ cnt0 > size THEN size ELSE cnt0
        st0 == [buf |-> <<>>, written |-> 0, offset |-> off, lru |-> c,
                fetched |-> <<>>, accessed |-> <<>>]
        tiv == Successor(off)
    IN
    IF Len(lmrange) = 0 THEN readRet(ErrPanic, <<>>, st0)
    ELSE IF tiv = 0 THEN readRet(ErrPanic, <<>>, st0)
    ELSE readLoop(src, cnt, tiv, st0)

\* ------------------------------------------------- what a call returns
\* n, the first n bytes of p, err; and for the observer the call's cursor
\* and cache effects and its accesses.
Outcome(n, data, err, cur, c, fetched, accessed) ==
    [n |-> n, data |-> data, err |-> err, offset |-> cur, lru |-> c,
     fetched |-> fetched, accessed |-> accessed]

\* copy(p, buf): the number of bytes copied.
copy(plen, blen) == Min(plen, blen)

\* Fault seeded into ReadAtCall: the call leaves the cursor after the
\* bytes it read.
ReadAtCall_movesCursor(c, cur, src, plen, off) ==
    IF plen = 0 THEN Outcome(0, <<>>, ErrNil, cur, c, <<>>, <<>>)
    ELSE IF size = 0 THEN Outcome(0, <<>>, ErrEOF, cur, c, <<>>, <<>>)
    ELSE LET r == read(c, src, off, plen) IN
         IF r.err.kind # "nil"
         THEN Outcome(0, <<>>, r.err, off, r.lru, r.fetched, r.accessed)
         ELSE LET n == copy(plen, Len(r.buf))
              IN  Outcome(n, SubSeq(r.buf, 1, n), ErrNil, off + n, r.lru,
                          r.fetched, r.accessed)

\* Fault seeded into ReadAtCall: the empty file is handed to read.
ReadAtCall_noEmptyGuard(c, cur, src, plen, off) ==
    IF plen = 0 THEN Outcome(0, <<>>, ErrNil, cur, c, <<>>, <<>>)
    ELSE LET r == read(c, src, off, plen) IN
         IF r.err.kind # "nil"
         THEN Outcome(0, <<>>, r.err, cur, r.lru, r.fetched, r.accessed)
         ELSE LET n == copy(plen, Len(r.buf))
              IN  Outcome(n, SubSeq(r.buf, 1, n), ErrNil, cur, r.lru,
                          r.fetched, r.accessed)

\* File.ReadAt(p, offset) with len(p) = plen.
ReadAtCall(c, cur, src, plen, off) ==
    IF plen = 0 THEN Outcome(0, <<>>, ErrNil, cur, c, <<>>, <<>>)
    ELSE IF size = 0 THEN Outcome(0, <<>>, ErrEOF, cur, c, <<>>, <<>>)
    ELSE LET r == read(c, src, off, plen) IN
         IF r.err.kind # "nil"
         THEN Outcome(0, <<>>, r.err, cur, r.lru, r.fetched, r.accessed)
         ELSE LET n == copy(plen, Len(r.buf))
              IN  Outcome(n, SubSeq(r.buf, 1, n), ErrNil, cur, r.lru,
                          r.fetched, r.accessed)

\* Fault seeded into newOffset: the cursor moves one byte too far.
newOffset_overshoots(cur, n) == cur + n + 1

\* Fault seeded into newOffset: the count is assigned, not added.
newOffset_assigned(cur, n) == n

\* f.offset += int64(n)
newOffset(cur, n) == cur + n

\* Fault seeded into ReadCall: end-of-file is seen only with the cursor
\* exactly at the size.
ReadCall_eofOnlyAtSize(c, cur, src, plen) ==
    IF plen = 0 THEN Outcome(0, <<>>, ErrNil, cur, c, <<>>, <<>>)
    ELSE IF size = 0 \/ cur = size THEN Outcome(0, <<>>, ErrEOF, cur, c, <<>>, <<>>)
    ELSE LET limit == IF plen > size - cur THEN size - cur ELSE plen
             r     == read(c, src, cur, limit)
         IN  IF r.err.kind # "nil"
             THEN Outcome(0, <<>>, r.err, cur, r.lru, r.fetched, r.accessed)
             ELSE LET n == copy(plen, Len(r.buf))
                  IN  Outcome(n, SubSeq(r.buf, 1, n), ErrNil, newOffset(cur, n), r.lru,
                              r.fetched, r.accessed)

\* Fault seeded into ReadCall: the cursor is advanced by the length asked
\* for before the error of read is looked at.
ReadCall_advancesFirst(c, cur, src, plen) ==
    IF plen = 0 THEN Outcome(0, <<>>, ErrNil, cur, c, <<>>, <<>>)
    ELSE IF size = 0 \/ cur >= size THEN Outcome(0, <<>>, ErrEOF, cur, c, <<>>, <<>>)
    ELSE LET limit == IF plen > size - cur THEN size - cur ELSE plen
             r     == read(c, src, cur, limit)
         IN  IF r.err.kind # "nil"
             THEN Outcome(0, <<>>, r.err, cur + limit, r.lru, r.fetched, r.accessed)
             ELSE LET n == copy(plen, Len(r.buf))
                  IN  Outcome(n, SubSeq(r.buf, 1, n), ErrNil, newOffset(cur, n), r.lru,
                              r.fetched, r.accessed)

\* Fault seeded into ReadCall: the empty buffer is not tested first.
ReadCall_noLenGuard(c, cur, src, plen) ==
    IF size = 0 \/ cur >= size THEN Outcome(0, <<>>, ErrEOF, cur, c, <<>>, <<>>)
    ELSE LET limit == IF plen > size - cur THEN size - cur ELSE plen
             r     == read(c, src, cur, limit)
         IN  IF r.err.kind # "nil"
             THEN Outcome(0, <<>>, r.err, cur, r.lru, r.fetched, r.accessed)
             ELSE LET n == copy(plen, Len(r.buf))
                  IN  Outcome(n, SubSeq(r.buf, 1, n), ErrNil, newOffset(cur, n), r.lru,
                              r.fetched, r.accessed)

\* File.Read(p) with len(p) = plen.
ReadCall(c, cur, src, plen) ==
    IF plen = 0 THEN Outcome(0, <<>>, ErrNil, cur, c, <<>>, <<>>)
    ELSE IF size = 0 \/ cur >= size THEN Outcome(0, <<>>, ErrEOF, cur, c, <<>>, <<>>)
    ELSE LET limit == IF plen > size - cur THEN size - cur ELSE plen
             r     == read(c, src, cur, limit)
         IN  IF r.err.kind # "nil"
             THEN Outcome(0, <<>>, r.err, cur, r.lru, r.fetched, r.accessed)
             ELSE LET n == copy(plen, Len(r.buf))
                  IN  Outcome(n, SubSeq(r.buf, 1, n), ErrNil, newOffset(cur, n), r.lru,
                              r.fetched, r.accessed)

\* Fault seeded into SeekCall: SEEK_SET moves relative to the cursor.
SeekCall_setIsRelative(cur, off, whence) ==
    CASE whence = SEEK_SET -> [offset |-> cur + off, n |-> cur + off, err |-> ErrNil]
      [] whence = SEEK_CUR -> [offset |-> cur + off, n |-> cur + off, err |-> ErrNil]
      [] whence = SEEK_END -> [offset |-> size - off, n |-> size - off, err |-> ErrNil]
      [] OTHER -> [offset |-> cur, n |-> 0, err |-> Err("InvalidWhence", "", "nil")]

\* Fault seeded into SeekCall: SEEK_END adds the offset to the size.
SeekCall_endIsAdditive(cur, off, whence) ==
    CASE whence = SEEK_SET -> [offset |-> off, n |-> off, err |-> ErrNil]
      [] whence = SEEK_CUR -> [offset |-> cur + off, n |-> cur + off, err |-> ErrNil]
      [] whence = SEEK_END -> [offset |-> size + off, n |-> size + off, err |-> ErrNil]
      [] OTHER -> [offset |-> cur, n |-> 0, err |-> Err("InvalidWhence", "", "nil")]

\* Fault seeded into SeekCall: an invalid whence rewinds the cursor.
SeekCall_badWhenceRewinds(cur, off, whence) ==
    CASE whence = SEEK_SET -> [offset |-> off, n |-> off, err |-> ErrNil]
      [] whence = SEEK_CUR -> [offset |-> cur + off, n |-> cur + off, err |-> ErrNil]
      [] whence = SEEK_END -> [offset |-> size - off, n |-> size - off, err |-> ErrNil]
      [] OTHER -> [offset |-> 0, n |-> 0, err |-> Err("InvalidWhence", "", "nil")]

\* File.Seek(offset, whence): the new cursor and the error.
SeekCall(cur, off, whence) ==
    CASE whence = SEEK_SET -> [offset |-> off, n |-> off, err |-> ErrNil]
      [] whence = SEEK_CUR -> [offset |-> cur + off, n |-> cur + off, err |-> ErrNil]
      [] whence = SEEK_END -> [offset |-> size - off, n |-> size - off, err |-> ErrNil]
      [] OTHER -> [offset |-> cur, n |-> 0, err |-> Err("InvalidWhence", "", "nil")]

\* ----------------------------------------------------------------- actions
\* The record of the last call: its name and arguments and what it returned;
\* for Read (off being the cursor it read from) also whether the call
\* before it was a Seek with SEEK_SET.
Call(op, plen, off, whence, o) ==
    [op |-> op, len |-> plen, off |-> off, whence |-> whence, afterSet |-> FALSE,
     n |-> o.n, data |-> o.data, err |-> o.err,
     fetched |-> o.fetched, accessed |-> o.accessed]

NoOutcome == [n |-> 0, data |-> <<>>, err |-> ErrNil, fetched |-> <<>>, accessed |-> <<>>]

\* The offsets and cursors explored: a little outside [0, size].
Offsets == (0 - MaxPast)..(size + MaxPast)

\* ------------------------------------------- ReadAt calls running together
\* A ReadAt in flight, step by step: the calls of one File share f.lru,
\* whose Get and Add are atomic, and the source; everything else of a call
\* is local to it.  pc is where the call stands: before the Get of chunk
\* i, before its fetch, before the Add of the fetched bytes bbuf, or done.
Procs == {1, 2}

IdleCall ==
    [pc |-> "idle", len |-> 0, off |-> 0, cnt |-> 0, i |-> 0, buf |-> <<>>,
     written |-> 0, offset |-> 0, bbuf |-> <<>>,
     n |-> 0, data |-> <<>>, err |-> ErrNil]

NoCalls == [p \in Procs |-> IdleCall]

\* The call has returned (n, data, err).
doneCall(c, n, data, err) ==
    [IdleCall EXCEPT !.pc = "done", !.len = c.len, !.off = c.off,
                     !.n = n, !.data = data, !.err = err]

\* read returned c.buf and ReadAt copies it into p.
finishCall(c) ==
    LET n == copy(c.len, Len(c.buf))
    IN  doneCall(c, n, SubSeq(c.buf, 1, n), ErrNil)

\* The head of the loop body at position c.i: past the last chunk read
\* returns, a chunk ending before the offset is stepped over, and else the
\* chunk is looked up in the cache when there is one, fetched when not.
RECURSIVE settle(_)
settle(c) ==
    IF c.i > Len(lmrange) THEN finishCall(c)
    ELSE IF c.offset > lmrange[c.i].Index THEN settle([c EXCEPT !.i = nextChunk(c.i)])
    ELSE [c EXCEPT !.pc = IF lruCap # 0 THEN "get" ELSE "fetch"]

\* The rest of the loop body once the bytes bbuf of chunk c.i are at hand.
afterChunk(c, bbuf) ==
    LET iv      == lmrange[c.i]
        foffset == foffsetOf(c.offset, iv.Index, Len(bbuf))
        rem     == c.cnt - c.written
        more    == needsMore(rem, Len(bbuf), foffset)
        upto    == IF more THEN Len(bbuf) ELSE foffset + rem
    IN  IF foffset < 0 \/ foffset > Len(bbuf) \/ upto > Len(bbuf) \/ upto < foffset
        THEN doneCall(c, 0, <<>>, ErrPanic)
        ELSE LET c2 == [c EXCEPT !.buf = c.buf \o SubSeq(bbuf, foffset + 1, upto),
                                 !.written = c.written + (upto - foffset),
                                 !.offset = 0,
                                 !.bbuf = <<>>]
             IN  IF ~more /\ c2.written # c.cnt THEN doneCall(c, 0, <<>>, ErrPanic)
                 ELSE IF reachedCnt(c2.written, c.cnt) THEN finishCall(c2)
                 ELSE settle([c2 EXCEPT !.i = nextChunk(c.i)])

\* ReadAt(p, off) up to the first chunk access.
beginCall(plen, off) ==
    LET c0 == [IdleCall EXCEPT !.len = plen, !.off = off] IN
    IF plen = 0 THEN doneCall(c0, 0, <<>>, ErrNil)
    ELSE IF size = 0 THEN doneCall(c0, 0, <<>>, ErrEOF)
    ELSE IF Len(lmrange) = 0 \/ Successor(off) = 0 THEN doneCall(c0, 0, <<>>, ErrPanic)
    ELSE settle([c0 EXCEPT !.cnt = IF plen > size THEN size ELSE plen,
                           !.i = Successor(off),
                           !.offset = off])

\* A call on a File built with a nil cache, run to its end: every chunk
\* access is a Get of the source.
RECURSIVE runPlain(_, _)
runPlain(c, src) ==
    IF c.pc = "done" THEN c
    ELSE LET b == bsGet(src, lmrange[c.i].Value) IN
         IF b.err # "nil"
         THEN doneCall(c, 0, <<>>, Err("FetchFailed", lmrange[c.i].Value, b.err))
         ELSE runPlain(afterChunk(c, b.bytes), src)

\* ReadAt(p, off) on a File built with a nil cache.
PlainReadAt(plen, off, src) == runPlain(beginCall(plen, off), src)

\* Read(p) at cursor cur on a File built with a nil cache.
PlainRead(plen, cur, src) ==
    IF plen = 0 THEN doneCall(IdleCall, 0, <<>>, ErrNil)
    ELSE IF size = 0 \/ cur >= size THEN doneCall(IdleCall, 0, <<>>, ErrEOF)
    ELSE runPlain(beginCall(IF plen > size - cur THEN size - cur ELSE plen, cur), src)

\* Fault seeded into pendingBytes: the fetched bytes sit in one place
\* shared by the calls, where a later fetch overwrites them.
pendingBytes_shared(p) ==
    IF \E q \in Procs : q # p /\ calls[q].pc = "add"
    THEN calls[CHOOSE q \in Procs : q # p /\ calls[q].pc = "add"].bbuf
    ELSE calls[p].bbuf

\* The bytes a call fetched and has yet to Add: its own local bbuf.
pendingBytes(p) == calls[p].bbuf

\* Call p starts; the calls being alike, call 1 is the one to start first.
CBegin(p) ==
    /\ calls[p].pc = "idle"
    /\ p = 1 \/ calls[1].pc # "idle"
    /\ \E plen \in 1..MaxLen, off \in 0..size :
            calls' = [calls EXCEPT ![p] = beginCall(plen, off)]
    /\ UNCHANGED <<size, lmrange, offset, lruCap, lru, ret, out, passNo, passFetches,
                   passDone, extVars>>

\* f.lru.Get(iv.Value)
CGet(p) ==
    /\ calls[p].pc = "get"
    /\ \E g \in {lruGet(lru, lmrange[calls[p].i].Value)} :
        /\ lru' = g.lru
        /\ calls' = [calls EXCEPT ![p] = IF g.ok THEN afterChunk(calls[p], g.value)
                                          ELSE [calls[p] EXCEPT !.pc = "fetch"]]
    /\ UNCHANGED <<size, lmrange, offset, lruCap, ret, out, passNo, passFetches,
                   passDone, extVars>>

\* f.bs.Get(f.ctx, iv.Value), the source answering or failing this Get.
CFetch(p) ==
    /\ calls[p].pc = "fetch"
    /\ \E src \in Faults({lmrange[calls[p].i].Value}) :
        \E b \in {bsGet(src, lmrange[calls[p].i].Value)} :
            calls' = [calls EXCEPT ![p] =
                IF b.err # "nil"
                THEN doneCall(calls[p], 0, <<>>,
                              Err("FetchFailed", lmrange[calls[p].i].Value, b.err))
                ELSE IF lruCap # 0
                THEN [calls[p] EXCEPT !.pc = "add", !.bbuf = b.bytes]
                ELSE afterChunk(calls[p], b.bytes)]
    /\ UNCHANGED <<size, lmrange, offset, lruCap, lru, ret, out, passNo, passFetches,
                   passDone, extVars>>

\* f.lru.Add(iv.Value, bbuf)
CAdd(p) ==
    /\ calls[p].pc = "add"
    /\ \E bbuf \in {pendingBytes(p)} :
        /\ lru' = lruAdd(lru, lruCap, lmrange[calls[p].i].Value, bbuf)
        /\ calls' = [calls EXCEPT ![p] = afterChunk(calls[p], bbuf)]
    /\ UNCHANGED <<size, lmrange, offset, lruCap, ret, out, passNo, passFetches,
                   passDone, extVars>>

\* NewFile(ctx, bs, meta, cache) over a well-formed meta.
NewFile(hs, cap) ==
    /\ size = SumLen(hs, Len(hs))
    /\ lmrange = [i \in 1..Len(hs) |->
                    [Index |-> FileRefs(hs)[i].Index, Value |-> FileRefs(hs)[i].Value, I |-> i]]
    /\ offset = 0
    /\ lruCap = cap
    /\ lru = <<>>
    /\ ret = Call("NewFile", 0, 0, 0, NoOutcome)

\* The file node before any FUSE call: not created, unlocked, no handle.
NoFile == [made |-> FALSE, mu |-> FALSE, node |-> FALSE, fds |-> 0, h |-> 0]

NoFuseCall == [op |-> "None", err |-> "nil", upload |-> "none"]

FuseIdle ==
    /\ file = NoFile
    /\ tmps = <<>>
    /\ handles = <<>>
    /\ fret = NoFuseCall

Workers == {"upload", "delete", "download"}

S3Hashes == {"X"}

NoItem == [id |-> 0, hash |-> ""]

\* A worker at the top of its loop, nothing dequeued yet.
NewWorker ==
    [pc |-> "top", item |-> NoItem, settled |-> <<>>, outcome |-> "none", stops |-> 0]

NoS3Call == [op |-> "None", hash |-> "", found |-> FALSE, id |-> 0, err |-> "nil"]

\* New: empty queues and index, the stop channel made, the three workers
\* started.
S3Idle ==
    /\ queues = [w \in Workers |-> <<>>]
    /\ downloadIndex = [x \in S3Hashes |-> 0]
    /\ downloadMutex = ""
    /\ workers = [w \in Workers |-> NewWorker]
    /\ wg = 0
    /\ stop = [pc |-> "idle", sent |-> 0]
    /\ closed = FALSE
    /\ remote = {}
    /\ nextId = 1
    /\ s3ret = NoS3Call

\* GC called with a script of these marks and this remoteRefs map, at its
\* first statement.
NewGC(script, remoteRefs) ==
    [pc |-> "script", script |-> script, ip |-> 1, refs |-> {}, todo |-> {},
     remoteRefs |-> remoteRefs, given |-> remoteRefs,
     events |-> <<>>, gets |-> <<>>, puts |-> <<>>, err |-> "nil"]

GCIdle == gc = NewGC(<<>>, <<>>)

ExtIdle == FuseIdle /\ S3Idle /\ GCIdle

PassIdle ==
    /\ calls = NoCalls
    /\ out = <<>>
    /\ passNo = 1
    /\ passFetches = 0
    /\ passDone = FALSE

PassInit == PassIdle /\ ExtIdle

Init ==
    /\ \E hs \in ChunkLists, cap \in 0..MaxCap : NewFile(hs, cap)
    /\ PassInit

\* f.Read(p), len(p) = plen, the source behaving as src during the call.
Read(plen, src) ==
    \E o \in {ReadCall(lru, offset, src, plen)} :
    /\ offset' = o.offset
    /\ lru' = o.lru
    /\ ret' = [Call("Read", plen, offset, 0, o) EXCEPT
                 !.afterSet = (ret.op = "Seek" /\ ret.whence = SEEK_SET)]
    /\ UNCHANGED <<size, lmrange, lruCap>>

\* f.ReadAt(p, off), len(p) = plen, the source behaving as src.
ReadAt(plen, off, src) ==
    \E o \in {ReadAtCall(lru, offset, src, plen, off)} :
    /\ offset' = o.offset
    /\ lru' = o.lru
    /\ ret' = Call("ReadAt", plen, off, 0, o)
    /\ UNCHANGED <<size, lmrange, lruCap>>

\* f.Seek(off, whence); the cursors explored stay within Offsets.
Seek(off, whence) ==
    \E o \in {SeekCall(offset, off, whence)} :
    /\ o.offset \in Offsets
    /\ offset' = o.offset
    /\ ret' = Call("Seek", 0, off, whence,
                   [NoOutcome EXCEPT !.n = o.n, !.err = o.err])
    /\ UNCHANGED <<size, lmrange, lruCap, lru>>

\* File.Reset()
Reset ==
    /\ offset' = 0
    /\ ret' = Call("Reset", 0, 0, 0, NoOutcome)
    /\ UNCHANGED <<size, lmrange, lruCap, lru>>

\* Fault seeded into lruPurge: the most recently used entry survives.
lruPurge_keepsFront(c) == SubSeq(c, 1, Min(1, Len(c)))

\* lru.Purge()
lruPurge(c) == <<>>

\* File.Close(): the cache, when there is one, is purged; nothing else
\* changes and the error is nil.
Close ==
    /\ lru' = IF lruCap # 0 THEN lruPurge(lru) ELSE lru
    /\ ret' = Call("Close", 0, 0, 0, NoOutcome)
    /\ UNCHANGED <<size, lmrange, lruCap, offset>>

\* The caller holds the result of one call at a time: a call starts once
\* the result of the call before it has been consumed (Forget), except that
\* a Read may follow a Seek directly, any call may follow a Close directly
\* and a ReadAt may be repeated directly with the same arguments, so that
\* ret and ret' show both calls.
NoCall == Call("None", 0, 0, 0, NoOutcome)

Idle == ret.op \in {"NewFile", "None"}

Forget ==
    /\ ~Idle
    /\ ret' = NoCall
    /\ UNCHANGED <<size, lmrange, offset, lruCap, lru, passVars>>

\* The hashes a call asked the cache or the source for.
Asked(o) == {lmrange[o.accessed[k]].Value : k \in 1..Len(o.accessed)}

\* A source that fails a hash the call did not ask for has behaved for
\* the call as the one that fails none: the behaviours of the source
\* told apart for a call are no failure and the failure of a hash it
\* asked for.
Told(src, o) == src = NoFault \/ src.hash \in Asked(o)

ReadOp ==
    /\ Idle \/ ret.op \in {"Seek", "Close"}
    /\ \E plen \in 0..MaxLen, src \in Faults(ChunkHashes) :
            Read(plen, src) /\ Told(src, ret')
    /\ UNCHANGED passVars

ReadAtOp ==
    /\ Idle \/ ret.op = "Close"
    /\ \E plen \in 0..MaxLen, off \in Offsets, src \in Faults(ChunkHashes) :
            ReadAt(plen, off, src) /\ Told(src, ret')
    /\ UNCHANGED passVars

ReadAtAgain ==
    /\ ret.op = "ReadAt"
    /\ \E src \in Faults(ChunkHashes) :
            ReadAt(ret.len, ret.off, src) /\ Told(src, ret')
    /\ UNCHANGED passVars

SeekOp ==
    /\ Idle \/ ret.op = "Close"
    /\ \E off \in Offsets, whence \in {SEEK_SET, SEEK_CUR, SEEK_END, 3} :
            Seek(off, whence)
    /\ UNCHANGED passVars

ResetOp == Idle /\ Reset /\ UNCHANGED passVars

CloseOp == (Idle \/ ret.op = "Close") /\ Close /\ UNCHANGED passVars

Next == ReadOp \/ ReadAtOp \/ ReadAtAgain \/ SeekOp \/ ResetOp \/ CloseOp \/ Forget

Spec == Init /\ [][Next]_vars

\* --------------------------------------------------- sequential passes
\* A caller that reads the file from cursor 0 to end-of-file with
\* non-empty buffers, the source answering every Get, then resets the
\* cursor and reads it again.
PassRead ==
    \E plen \in 1..MaxLen :
        /\ ~passDone
        /\ Read(plen, NoFault)
        /\ out' = out \o ret'.data
        /\ passFetches' = passFetches + Len(ret'.fetched)
        /\ passDone' = (ret'.err.kind = "EOF")
        /\ UNCHANGED <<calls, passNo, extVars>>

PassReset ==
    /\ passDone
    /\ passNo < MaxPasses
    /\ Reset
    /\ out' = <<>>
    /\ passFetches' = 0
    /\ passDone' = FALSE
    /\ passNo' = passNo + 1
    /\ UNCHANGED <<calls, extVars>>

NextPass == PassRead \/ PassReset

SpecPass == Init /\ [][NextPass]_vars

\* ------------------------------------------------ two ReadAt at a time
NextConc == \E p \in Procs : CBegin(p) \/ CGet(p) \/ CFetch(p) \/ CAdd(p)

SpecConc == Init /\ [][NextConc]_vars

\* -------------------------------------------------------------- GetFile
\* GetFile from the point where the meta is decoded: a File over the meta
\* with a fresh cache of GetFileCacheSize entries is copied into the sink
\* by io.Copy, whose result is dropped; the size of the sink is then
\* compared with meta.Size.  The sink holds out.  CopyBufLen is the
\* length of the buffer io.Copy reads with, scaled to the model's files.
GetFileCacheSize == 5
CopyBufLen == 2

\* Fault seeded into GetFileResult: a sink shorter than the meta says
\* passes.
GetFileResult_acceptsShort(stat, metaSize) ==
    [err |-> IF stat > metaSize THEN Err("SizeMismatch", "", "nil") ELSE ErrNil,
     actual |-> stat, expected |-> metaSize]

\* The comparison of fstat.Size() with meta.Size and the error made of
\* the two numbers.
GetFileResult(stat, metaSize) ==
    [err |-> IF stat # metaSize THEN Err("SizeMismatch", "", "nil") ELSE ErrNil,
     actual |-> stat, expected |-> metaSize]

InitRestore ==
    /\ \E hs \in ChunkLists : NewFile(hs, GetFileCacheSize)
    /\ PassInit

\* One round of io.Copy: a Read into the buffer, the bytes read written
\* to the sink (the write succeeding or not), the copy ending on the
\* first error of either and on end-of-file.
CopyRead ==
    /\ ~passDone
    /\ \E src \in Faults(ChunkHashes), wrote \in BOOLEAN :
        /\ Read(CopyBufLen, src)
        /\ out' = IF wrote THEN out \o ret'.data ELSE out
        /\ passDone' = (ret'.err.kind # "nil" \/ (ret'.n > 0 /\ ~wrote))
    /\ UNCHANGED <<calls, passNo, passFetches, extVars>>

\* What GetFile returns once the copy has ended; ffile.Close is deferred.
GetFileReturn ==
    /\ passDone
    /\ ret.op # "GetFile"
    /\ \E r \in {GetFileResult(Len(out), size)} :
            ret' = Call("GetFile", r.expected, 0, 0,
                        [NoOutcome EXCEPT !.n = r.actual, !.err = r.err])
    /\ lru' = lruPurge(lru)
    /\ UNCHANGED <<size, lmrange, offset, lruCap, passVars>>

NextRestore == CopyRead \/ GetFileReturn

SpecRestore == InitRestore /\ [][NextRestore]_vars

\* ------------------------------------------------- metas as they come
\* NewFile takes the meta as the caller hands it over: Size and the
\* (end offset, hash) pairs of Refs are copied into the File unexamined.
\* The metas explored: up to MaxRefs pairs with end offsets up to MaxIndex,
\* in any order, and any Size up to MaxIndex.
MaxRefs == 2
MaxIndex == 2

RawRefs == [Index : 0..MaxIndex, Value : {"A", "B"}]

RawMetas ==
    [Size : 0..MaxIndex,
     Refs : UNION {[1..n -> RawRefs] : n \in 0..MaxRefs}]

\* NewFile(ctx, bs, meta, cache) over any meta.
NewFileRaw(meta, cap) ==
    /\ size = meta.Size
    /\ lmrange = [i \in 1..Len(meta.Refs) |->
                    [Index |-> meta.Refs[i].Index, Value |-> meta.Refs[i].Value, I |-> i]]
    /\ offset = 0
    /\ lruCap = cap
    /\ lru = <<>>
    /\ ret = Call("NewFile", 0, 0, 0, NoOutcome)

InitRaw ==
    /\ \E meta \in RawMetas, cap \in 0..MaxCap : NewFileRaw(meta, cap)
    /\ PassInit

NextRaw == ReadOp \/ ReadAtOp \/ Forget

SpecRaw == InitRaw /\ [][NextRaw]_vars

\* A caller that never calls Seek or Reset: Read and ReadAt only.
NextNoSeek == ReadOp \/ ReadAtOp \/ ReadAtAgain \/ Forget

SpecNoSeek == Init /\ [][NextNoSeek]_vars

\* ------------------------------------------------------ FUSE file node
\* One file of the mounted file system: its node, the handles the kernel
\* holds on it and the temp files made for its writable handles.  The
\* calls come one after the other.  A call that locks f.mu while it is
\* locked never returns: it reports "Blocked" and what it did before the
\* Lock stays done.  The step of a call that fails is an input.
MaxOpens == 3

FuseCall(op, err) == [op |-> op, err |-> err, upload |-> "none"]

\* The handle table with one more handle.
newHandle(kind, tmp) == Append(handles, [kind |-> kind, tmp |-> tmp, open |-> TRUE])

FuseRoom ==
    /\ Len(handles) < MaxOpens
    /\ Len(tmps) < MaxOpens
    /\ file.fds < MaxOpens

\* dir.Create: the node is patched into the parent, a new file with
\* fds = 1 is put in the directory, a temp file is made and the rw handle
\* over it becomes f.h.
Create(fail) ==
    /\ ~file.made
    /\ FuseRoom
    /\ IF fail = "patch"
       THEN /\ fret' = FuseCall("Create", "PatchFailed")
            /\ UNCHANGED <<file, tmps, handles>>
       ELSE IF fail = "tmp"
       THEN /\ file' = [file EXCEPT !.made = TRUE, !.fds = @ + 1]
            /\ fret' = FuseCall("Create", "TempFileFailed")
            /\ UNCHANGED <<tmps, handles>>
       ELSE /\ tmps' = Append(tmps, "open")
            /\ file' = [file EXCEPT !.made = TRUE, !.fds = @ + 1, !.h = Len(tmps) + 1]
            /\ handles' = newHandle("rw", Len(tmps) + 1)
            /\ fret' = FuseCall("Create", "nil")

\* file.FTNode: under f.mu, the node is loaded unless it already is.
FTNode(fail) ==
    /\ file.made
    /\ IF file.mu
       THEN fret' = FuseCall("FTNode", "Blocked") /\ file' = file
       ELSE IF ~file.node /\ fail = "node"
       THEN fret' = FuseCall("FTNode", "NodeFailed") /\ file' = file
       ELSE fret' = FuseCall("FTNode", "nil") /\ file' = [file EXCEPT !.node = TRUE]
    /\ UNCHANGED <<tmps, handles>>

\* file.Open: fds is counted first; an rw handle already there is
\* returned as it is; else the node is loaded and, for a writable open, a
\* temp file is made, filled from the reader and becomes f.h; a read-only
\* open returns a fileHandle.
Open(write, fail) ==
    /\ file.made
    /\ FuseRoom
    /\ \E f1 \in {[file EXCEPT !.fds = @ + 1]} :
       IF file.h # 0
       THEN /\ file' = f1
            /\ handles' = newHandle("rw", file.h)
            /\ fret' = FuseCall("Open", "nil")
            /\ tmps' = tmps
       ELSE IF file.mu
       THEN /\ file' = f1
            /\ fret' = FuseCall("Open", "Blocked")
            /\ UNCHANGED <<tmps, handles>>
       ELSE IF ~file.node /\ fail = "node"
       THEN /\ file' = f1
            /\ fret' = FuseCall("Open", "NodeFailed")
            /\ UNCHANGED <<tmps, handles>>
       ELSE IF write /\ fail = "tmp"
       THEN /\ file' = [f1 EXCEPT !.node = TRUE]
            /\ fret' = FuseCall("Open", "TempFileFailed")
            /\ UNCHANGED <<tmps, handles>>
       ELSE IF write /\ fail \in {"reader", "copy"}
       THEN /\ file' = [f1 EXCEPT !.node = TRUE]
            /\ tmps' = Append(tmps, "open")
            /\ fret' = FuseCall("Open", IF fail = "reader" THEN "ReaderFailed"
                                                          ELSE "CopyFailed")
            /\ handles' = handles
       ELSE IF write
       THEN /\ tmps' = Append(tmps, "open")
            /\ file' = [f1 EXCEPT !.node = TRUE, !.h = Len(tmps) + 1]
            /\ handles' = newHandle("rw", Len(tmps) + 1)
            /\ fret' = FuseCall("Open", "nil")
       ELSE /\ file' = [f1 EXCEPT !.node = TRUE]
            /\ handles' = newHandle("ro", 0)
            /\ fret' = FuseCall("Open", "nil")
            /\ tmps' = tmps

\* fileHandle.Release of handle i: under f.mu, fds is counted down.
ReleaseRO(i) ==
    /\ handles[i].open /\ handles[i].kind = "ro"
    /\ IF file.mu
       THEN /\ fret' = FuseCall("Release", "Blocked")
            /\ UNCHANGED <<file, handles>>
       ELSE /\ file' = [file EXCEPT !.fds = @ - 1]
            /\ handles' = [handles EXCEPT ![i].open = FALSE]
            /\ fret' = FuseCall("Release", "nil")
    /\ tmps' = tmps

\* rwFileHandle.Release of handle i: under f.mu, fds is counted down; at 0
\* the temp file is closed and removed, a failed Remove returning at
\* once; then f.h is set to nil.
ReleaseRW(i, fail) ==
    /\ handles[i].open /\ handles[i].kind = "rw"
    /\ IF file.mu
       THEN /\ fret' = FuseCall("Release", "Blocked")
            /\ UNCHANGED <<file, handles, tmps>>
       ELSE /\ handles' = [handles EXCEPT ![i].open = FALSE]
            /\ IF file.fds - 1 # 0
               THEN /\ file' = [file EXCEPT !.fds = @ - 1, !.h = 0]
                    /\ tmps' = tmps
                    /\ fret' = FuseCall("Release", "nil")
               ELSE IF fail = "remove" \/ tmps[handles[i].tmp] = "removed"
               THEN /\ file' = [file EXCEPT !.fds = @ - 1]
                    /\ tmps' = [tmps EXCEPT ![handles[i].tmp] =
                                    IF @ = "removed" THEN @ ELSE "closed"]
                    /\ fret' = FuseCall("Release", "RemoveFailed")
               ELSE /\ file' = [file EXCEPT !.fds = @ - 1, !.h = 0]
                    /\ tmps' = [tmps EXCEPT ![handles[i].tmp] = "removed"]
                    /\ fret' = FuseCall("Release", "nil")

\* The first part of rwFileHandle.Flush: f.mu is locked, the temp file is
\* uploaded; a failed upload returns nil at once, else f.mu is unlocked.
flushUpload(f, ok) ==
    IF ok THEN [mu |-> FALSE, returns |-> FALSE, err |-> "nil"]
    ELSE [mu |-> TRUE, returns |-> TRUE, err |-> "nil"]

\* rwFileHandle.Flush of handle i: the upload under f.mu, then the patch
\* of the parent directory, then the cached node is dropped and loaded
\* again.
Flush(i, fail) ==
    /\ handles[i].open /\ handles[i].kind = "rw"
    /\ IF file.mu
       THEN fret' = FuseCall("Flush", "Blocked") /\ file' = file
       ELSE \E u \in {flushUpload(file, fail # "upload")} :
            IF u.returns
            THEN /\ file' = [file EXCEPT !.mu = u.mu]
                 /\ fret' = [op |-> "Flush", err |-> u.err, upload |-> "failed"]
            ELSE IF fail = "patch"
            THEN /\ file' = [file EXCEPT !.mu = u.mu]
                 /\ fret' = [op |-> "Flush", err |-> "PatchFailed", upload |-> "ok"]
            ELSE IF fail = "node"
            THEN /\ file' = [file EXCEPT !.mu = u.mu, !.node = FALSE]
                 /\ fret' = [op |-> "Flush", err |-> "NodeFailed", upload |-> "ok"]
            ELSE /\ file' = [file EXCEPT !.mu = u.mu, !.node = TRUE]
                 /\ fret' = [op |-> "Flush", err |-> "nil", upload |-> "ok"]
    /\ UNCHANGED <<tmps, handles>>

\* The reader's variables while the FUSE calls run.
ReaderIdle == NewFile(<<>>, 0) /\ PassIdle

readerVars == <<size, lmrange, offset, lruCap, lru, ret, calls, out, passNo,
                passFetches, passDone>>

\* The file is either to be created or one found by a Lookup.
InitFuse ==
    /\ ReaderIdle
    /\ file \in {NoFile, [NoFile EXCEPT !.made = TRUE]}
    /\ tmps = <<>>
    /\ handles = <<>>
    /\ fret = NoFuseCall
    /\ S3Idle
    /\ GCIdle

CreateOp == (\E fail \in {"none", "patch", "tmp"} : Create(fail)) /\ UNCHANGED <<readerVars, s3Vars, gc>>

FTNodeOp == (\E fail \in {"none", "node"} : FTNode(fail)) /\ UNCHANGED <<readerVars, s3Vars, gc>>

OpenOp ==
    /\ \E write \in BOOLEAN, fail \in {"none", "node", "tmp", "reader", "copy"} :
            Open(write, fail)
    /\ UNCHANGED <<readerVars, s3Vars, gc>>

ReleaseOp ==
    /\ \E i \in 1..Len(handles) :
            ReleaseRO(i) \/ \E fail \in {"none", "remove"} : ReleaseRW(i, fail)
    /\ UNCHANGED <<readerVars, s3Vars, gc>>

FlushOp ==
    /\ \E i \in 1..Len(handles), fail \in {"none", "upload", "patch", "node"} :
            Flush(i, fail)
    /\ UNCHANGED <<readerVars, s3Vars, gc>>

NextFuse == CreateOp \/ FTNodeOp \/ OpenOp \/ ReleaseOp \/ FlushOp

SpecFuse == InitFuse /\ [][NextFuse]_vars

\* ----------------------------------------------------------- S3 backend
\* The three queue workers, the hub callbacks that feed the queues,
\* BlobWaitingForDownload and Close.  A queue keeps an item until the
\* deqFunc that Dequeue returned with it is called with true; Dequeue
\* hands out the oldest item.  Every Enqueue gives its item a new id.
\* What S3 and the local stores answer is an input of the step: the
\* outcome.
MaxEnq == 2

\* Queue.Enqueue on queue w.
Enqueue(w, hash) == [queues EXCEPT ![w] = Append(@, [id |-> nextId, hash |-> hash])]

\* The queue without the item of this id: deqFunc(true), InstantDequeue.
removeItem(q, id) == SelectSeq(q, LAMBDA it : it.id # id)

\* S3Backend.Put
S3Put(hash) ==
    /\ nextId <= MaxEnq
    /\ queues' = Enqueue("upload", hash)
    /\ nextId' = nextId + 1
    /\ UNCHANGED <<downloadIndex, downloadMutex, workers, wg, stop, closed, remote, s3ret>>

\* S3Backend.newDeleteRemoteBlobCallback
DeleteRemoteBlobCallback(hash) ==
    /\ nextId <= MaxEnq
    /\ queues' = Enqueue("delete", hash)
    /\ nextId' = nextId + 1
    /\ UNCHANGED <<downloadIndex, downloadMutex, workers, wg, stop, closed, remote, s3ret>>

\* S3Backend.newSyncRemoteBlobCallback: under downloadMutex the blob, whose
\* object a client has put under tmp/, is enqueued for download and
\* entered in the download index with the id of its item.
SyncRemoteBlobCallback(hash) ==
    /\ nextId <= MaxEnq
    /\ downloadMutex = ""
    /\ queues' = Enqueue("download", hash)
    /\ downloadIndex' = [downloadIndex EXCEPT ![hash] = nextId]
    /\ remote' = remote \cup {nextId}
    /\ nextId' = nextId + 1
    /\ UNCHANGED <<downloadMutex, workers, wg, stop, closed, s3ret>>

\* S3Backend.downloadRemoteBlob of the object of item id, which holds the
\* blob of this hash: a failure leaves everything as it is; else the
\* entry of the hash leaves the download index and the object leaves
\* tmp/, whether the blob was already there ("exists") or not ("saved").
downloadRemoteBlob(id, hash, outcome) ==
    IF outcome = "failed" \/ id \notin remote
    THEN [ok |-> FALSE, index |-> downloadIndex, remote |-> remote]
    ELSE [ok |-> TRUE, index |-> [downloadIndex EXCEPT ![hash] = 0],
          remote |-> remote \ {id}]

\* S3Backend.BlobWaitingForDownload(hash), under downloadMutex from its
\* first statement to its return: a hash in the download index is
\* downloaded and the id of its item is dequeued from the upload queue.
BlobWaitingForDownload(hash, outcome) ==
    /\ downloadMutex = ""
    /\ IF downloadIndex[hash] = 0
       THEN /\ s3ret' = [op |-> "BlobWaitingForDownload", hash |-> hash, found |-> FALSE,
                         id |-> 0, err |-> "nil"]
            /\ UNCHANGED <<downloadIndex, remote, queues>>
       ELSE \E d \in {downloadRemoteBlob(downloadIndex[hash], hash, outcome)} :
            /\ downloadIndex' = d.index
            /\ remote' = d.remote
            /\ IF d.ok
               THEN /\ queues' = [queues EXCEPT !["upload"] =
                                      removeItem(@, downloadIndex[hash])]
                    /\ s3ret' = [op |-> "BlobWaitingForDownload", hash |-> hash,
                                 found |-> TRUE, id |-> downloadIndex[hash], err |-> "nil"]
               ELSE /\ queues' = queues
                    /\ s3ret' = [op |-> "BlobWaitingForDownload", hash |-> hash,
                                 found |-> FALSE, id |-> downloadIndex[hash],
                                 err |-> "DownloadFailed"]
    /\ UNCHANGED <<downloadMutex, workers, wg, stop, closed, nextId>>

\* Fault seeded into stopReady: the worker never looks at the channel.
stopReady_never(st) == FALSE

\* The select at the top of a worker's loop: the receive from b.stop is
\* taken when Close is parked on a send; the default branch otherwise.
stopReady(st) == st.pc = "parked"

\* case <-b.stop: the worker takes the value Close is sending and leaves
\* its loop; Close goes on to its next statement.
WorkerStop(w) ==
    /\ workers[w].pc = "top"
    /\ stopReady(stop)
    /\ workers' = [workers EXCEPT ![w].pc = "stopped", ![w].stops = @ + 1]
    /\ stop' = IF stop.sent + 1 = 3 THEN [pc |-> "wait", sent |-> 3]
                                    ELSE [pc |-> "send", sent |-> stop.sent + 1]
    /\ UNCHANGED <<queues, downloadIndex, downloadMutex, wg, closed, remote, nextId, s3ret>>

\* default: Dequeue hands the worker the oldest item of its queue; an
\* empty queue sends it to sleep and back to the top.
WorkerDequeue(w) ==
    /\ workers[w].pc = "top"
    /\ ~stopReady(stop)
    /\ queues[w] # <<>>
    /\ workers' = [workers EXCEPT ![w] = [pc |-> "got", item |-> Head(queues[w]),
                                          settled |-> <<>>, outcome |-> "none",
                                          stops |-> @.stops]]
    /\ UNCHANGED <<queues, downloadIndex, downloadMutex, wg, stop, closed, remote, nextId,
                   s3ret>>

\* The body begins: b.wg.Add(1), and in the download worker
\* b.downloadMutex.Lock().
WorkerBegin(w) ==
    /\ workers[w].pc = "got"
    /\ w = "download" => downloadMutex = ""
    /\ wg' = wg + 1
    /\ downloadMutex' = IF w = "download" THEN w ELSE downloadMutex
    /\ workers' = [workers EXCEPT ![w].pc = "work"]
    /\ UNCHANGED <<queues, downloadIndex, stop, closed, remote, nextId, s3ret>>

\* The calls of deqFunc on the path the body takes.  Upload: true after
\* the put and when the index already has the blob, false on every
\* error.  Delete: true after the object is deleted, no call when
\* GetObject or Delete fails.  Download: true after downloadRemoteBlob,
\* false when it fails.
deqCalls(w, outcome) ==
    IF outcome \in {"done", "exists"} THEN <<TRUE>>
    ELSE IF w = "delete" THEN <<>>
    ELSE <<FALSE>>

Outcomes(w) == IF w = "delete" THEN {"done", "failed"} ELSE {"done", "exists", "failed"}

\* The rest of the body, to the deferred b.wg.Done() and Unlock.
WorkerEnd(w, outcome) ==
    /\ workers[w].pc = "work"
    /\ \E d \in {IF w = "download"
                  THEN downloadRemoteBlob(workers[w].item.id, workers[w].item.hash, outcome)
                  ELSE [ok |-> outcome # "failed", index |-> downloadIndex,
                        remote |-> remote]} :
       \E o \in {IF d.ok THEN outcome ELSE "failed"} :
        /\ downloadIndex' = d.index
        /\ remote' = d.remote
        /\ workers' = [workers EXCEPT ![w].pc = "top", ![w].outcome = o,
                                      ![w].settled = deqCalls(w, o)]
        /\ queues' = IF TRUE \in {deqCalls(w, o)[k] : k \in 1..Len(deqCalls(w, o))}
                     THEN [queues EXCEPT ![w] = removeItem(@, workers[w].item.id)]
                     ELSE queues
    /\ wg' = wg - 1
    /\ downloadMutex' = IF w = "download" THEN "" ELSE downloadMutex
    /\ UNCHANGED <<stop, closed, nextId, s3ret>>

\* S3Backend.Close is called: it comes to its first send.
CloseBegin ==
    /\ stop.pc = "idle"
    /\ stop' = [stop EXCEPT !.pc = "send"]
    /\ UNCHANGED <<queues, downloadIndex, downloadMutex, workers, wg, closed, remote,
                   nextId, s3ret>>

\* b.stop <- struct{}{}: no receiver is waiting, Close parks on the send.
CloseSend ==
    /\ stop.pc = "send"
    /\ stop' = [stop EXCEPT !.pc = "parked"]
    /\ UNCHANGED <<queues, downloadIndex, downloadMutex, workers, wg, closed, remote,
                   nextId, s3ret>>

\* b.wg.Wait() returns when the counter is 0.
CloseWait ==
    /\ stop.pc = "wait"
    /\ wg = 0
    /\ stop' = [stop EXCEPT !.pc = "closing"]
    /\ UNCHANGED <<queues, downloadIndex, downloadMutex, workers, wg, closed, remote,
                   nextId, s3ret>>

\* The three queues and the index are closed and Close returns.
CloseQueues ==
    /\ stop.pc = "closing"
    /\ closed' = TRUE
    /\ stop' = [stop EXCEPT !.pc = "done"]
    /\ UNCHANGED <<queues, downloadIndex, downloadMutex, workers, wg, remote, nextId,
                   s3ret>>

outsideS3 == <<readerVars, fuseVars, gc>>

InitS3 == ReaderIdle /\ FuseIdle /\ S3Idle /\ GCIdle

FeedOp ==
    /\ \E hash \in S3Hashes :
        S3Put(hash) \/ DeleteRemoteBlobCallback(hash) \/ SyncRemoteBlobCallback(hash)
    /\ UNCHANGED outsideS3

BlobWaitingOp ==
    /\ \E hash \in S3Hashes, outcome \in Outcomes("download") :
            BlobWaitingForDownload(hash, outcome)
    /\ UNCHANGED outsideS3

WorkerStep(w) ==
    /\ \/ WorkerStop(w)
       \/ WorkerDequeue(w)
       \/ WorkerBegin(w)
       \/ \E outcome \in Outcomes(w) : WorkerEnd(w, outcome)
    /\ UNCHANGED outsideS3

S3CloseOp == CloseBegin /\ UNCHANGED outsideS3

CloseStep == (CloseSend \/ CloseWait \/ CloseQueues) /\ UNCHANGED outsideS3

NextS3 == FeedOp \/ BlobWaitingOp \/ (\E w \in Workers : WorkerStep(w)) \/ S3CloseOp \/ CloseStep

SpecS3 == InitS3 /\ [][NextS3]_vars

\* The scheduler lets every goroutine that can take a step take one: each
\* worker, and Close once it has been called.
SpecS3Fair ==
    /\ SpecS3
    /\ \A w \in Workers : WF_vars(WorkerStep(w))
    /\ WF_vars(CloseStep)

\* ------------------------------------------------------------------- GC
\* GC(ctx, h, s, script, remoteRefs).  The script is the sequence of its
\* calls of mark; it may fail at any point.  The two loops range over Go
\* maps, so they take the keys in any order.  remoteRefs maps a blob hash
\* to the key of its object; a nil map behaves as the empty one.
MaxMarks == 3

GCRefs == {"r1", "r2", "r3"}

remoteRefOf(ref) == <<"tmp", ref>>

RemoteRefMaps == {[k \in d |-> remoteRefOf(k)] : d \in SUBSET GCRefs}

\* mark(ref): the ref is entered in refs unless it is there.
mark(refs, ref) == IF ref \in refs THEN refs ELSE refs \cup {ref}

\* Fault seeded into deleteRef: the entry stays in the map.
deleteRef_keeps(m, ref) == m

\* delete(remoteRefs, ref)
deleteRef(m, ref) == [k \in DOMAIN m \ {ref} |-> m[k]]

SyncRemoteBlob(ref, remoteRef) == [type |-> "SyncRemoteBlob", hash |-> ref, extra |-> remoteRef]

DeleteRemoteBlob(remoteRef) == [type |-> "DeleteRemoteBlob", hash |-> "", extra |-> remoteRef]

GCFail(err) == [gc EXCEPT !.pc = "done", !.err = err]

\* The script calls mark.
GCMark ==
    /\ gc.pc = "script"
    /\ gc.ip <= Len(gc.script)
    /\ gc' = [gc EXCEPT !.refs = mark(@, gc.script[gc.ip]), !.ip = @ + 1]

\* L.DoString(script) returns an error.
GCScriptFails ==
    /\ gc.pc = "script"
    /\ gc' = GCFail("ScriptFailed")

\* L.DoString(script) returns nil: the loop over refs begins.
GCScriptEnds ==
    /\ gc.pc = "script"
    /\ gc.ip > Len(gc.script)
    /\ gc' = [gc EXCEPT !.pc = "refs", !.todo = gc.refs]

\* One round of the loop over refs: a ref with a remote entry gets a
\* SyncRemoteBlob event and its entry is deleted; any other is read from
\* the stash blob store and put into the root blob store.
GCRef(ref, fail) ==
    /\ gc.pc = "refs"
    /\ ref \in gc.todo
    /\ gc' =
        IF ref \in DOMAIN gc.remoteRefs
        THEN IF fail = "event" THEN GCFail("EventFailed")
             ELSE [gc EXCEPT !.events = Append(@, SyncRemoteBlob(ref, gc.remoteRefs[ref])),
                             !.remoteRefs = deleteRef(@, ref),
                             !.todo = @ \ {ref}]
        ELSE IF fail = "get" THEN GCFail("GetFailed")
             ELSE IF fail = "put"
             THEN [GCFail("PutFailed") EXCEPT !.gets = Append(@, ref)]
             ELSE [gc EXCEPT !.gets = Append(@, ref), !.puts = Append(@, ref),
                             !.todo = @ \ {ref}]

\* The loop over refs is through: the loop over what is left of
\* remoteRefs begins.
GCRefsEnd ==
    /\ gc.pc = "refs"
    /\ gc.todo = {}
    /\ gc' = [gc EXCEPT !.pc = "remote", !.todo = DOMAIN gc.remoteRefs]

\* One round of the loop over remoteRefs: a DeleteRemoteBlob event.
GCRemote(ref, fail) ==
    /\ gc.pc = "remote"
    /\ ref \in gc.todo
    /\ gc' = IF fail = "event" THEN GCFail("EventFailed")
             ELSE [gc EXCEPT !.events = Append(@, DeleteRemoteBlob(gc.remoteRefs[ref])),
                             !.todo = @ \ {ref}]

\* return nil
GCReturn ==
    /\ gc.pc = "remote"
    /\ gc.todo = {}
    /\ gc' = [gc EXCEPT !.pc = "done"]

Scripts == UNION {[1..n -> GCRefs] : n \in 0..MaxMarks}

InitGC ==
    /\ ReaderIdle
    /\ FuseIdle
    /\ S3Idle
    /\ \E script \in Scripts, remoteRefs \in RemoteRefMaps : gc = NewGC(script, remoteRefs)

outsideGC == <<readerVars, fuseVars, s3Vars>>

GCScriptOp == (GCMark \/ GCScriptFails \/ GCScriptEnds) /\ UNCHANGED outsideGC

GCRefOp ==
    /\ \E ref \in GCRefs, fail \in {"none", "event", "get", "put"} : GCRef(ref, fail)
    /\ UNCHANGED outsideGC

GCRemoteOp ==
    /\ \E ref \in GCRefs, fail \in {"none", "event"} : GCRemote(ref, fail)
    /\ UNCHANGED outsideGC

GCEndOp == (GCRefsEnd \/ GCReturn) /\ UNCHANGED outsideGC

NextGC == GCScriptOp \/ GCRefOp \/ GCRemoteOp \/ GCEndOp

SpecGC == InitGC /\ [][NextGC]_vars

\* ================================================================ claims
IsReadAt == ret.op = "ReadAt"
IsRead   == ret.op = "Read"

\* A ReadAt with a non-empty buffer at an offset inside the file.
ReadAtInside == IsReadAt /\ ret.len > 0 /\ ret.off >= 0 /\ ret.off < size

\* C1: reading sequentially from cursor 0 with non-empty buffers, the bytes
\* returned so far are always the first bytes of the file up to the cursor,
\* every Read before end-of-file returns at least one byte, and when Read
\* reports end-of-file the bytes returned are exactly the size bytes of the
\* file: the chunk contents concatenated in declaration order.
C1_SequentialReadsYieldFile ==
    /\ out = SubSeq(FileBytes, 1, offset)
    /\ Len(out) = offset
    /\ (IsRead /\ ~passDone) => ret.n > 0
    /\ passDone => (out = FileBytes /\ Len(out) = size)

C1_Witness ==
    /\ passDone
    /\ passNo = 1
    /\ NumChunks = 3
    /\ out = <<1, 2, 3, 4, 5>>

\* C2: a ReadAt with a non-empty buffer at an offset in [0, size) fails
\* only when a fetch fails, and otherwise returns exactly
\* min(len, size - offset) bytes, also for a buffer longer than the file.
C2_ReadAtCount ==
    ReadAtInside =>
        /\ ret.err.kind \in {"nil", "FetchFailed"}
        /\ ret.err.kind = "nil" => ret.n = Min(ret.len, size - ret.off)
        /\ ret.n <= Min(ret.len, size - ret.off)

C2_Witness ==
    /\ ReadAtInside
    /\ ret.err.kind = "nil"
    /\ ret.len > size
    /\ ret.off = 1
    /\ ret.n = size - 1

\* C3: the bytes a successful ReadAt at an offset in [0, size) puts in the
\* buffer are the file bytes in [offset, offset + want), want being
\* min(len, size - offset), wherever the range starts and however many
\* chunk boundaries it spans.
C3_ReadAtBytes ==
    (ReadAtInside /\ ret.err.kind = "nil") =>
        ret.data = Range(ret.off, Min(ret.len, size - ret.off))

\* A read starting in the middle of the first chunk and spanning two
\* chunk boundaries.
C3_Witness ==
    /\ ReadAtInside
    /\ ret.off = 1
    /\ ret.accessed = <<1, 2, 3>>
    /\ ret.data = <<2, 3, 4>>

\* C4: a Read that follows Seek(o, SEEK_SET) with o in [0, size] returns
\* the same count and the same bytes as ReadAt(p, o) called with the same
\* buffer length from the state the Read started in (same cursor before the
\* Seek aside, same cache, same source behaviour).
C4_SeekLaw ==
    [][(/\ ret.op = "Seek" /\ ret.whence = SEEK_SET
        /\ ret.off >= 0 /\ ret.off <= size
        /\ ret'.op = "Read" /\ ret'.afterSet)
       => \A src \in Faults(Asked(ret')) :
            \E r \in {ReadCall(lru, offset, src, ret'.len)} :
                (/\ r.n = ret'.n /\ r.data = ret'.data /\ r.err = ret'.err
                 /\ r.fetched = ret'.fetched /\ r.lru = lru')
                => \E a \in {ReadAtCall(lru, offset, src, ret'.len, ret.off)} :
                        a.n = ret'.n /\ a.data = ret'.data]_vars

\* A Read of three bytes across two chunk boundaries right after a
\* Seek(1, SEEK_SET), the cache holding something already.
C4_Witness ==
    /\ IsRead
    /\ ret.afterSet
    /\ ret.off = 1
    /\ ret.data = <<2, 3, 4>>
    /\ Len(ret.fetched) > 0
    /\ Len(ret.fetched) < Len(ret.accessed)

\* C5: no ReadAt call, successful or failed, changes the cursor; and a
\* successful ReadAt repeated with the same buffer length and offset right
\* after a successful one returns the same count and bytes, whatever the
\* first call did to the cache.
C5_ReadAtIdempotent ==
    [][ret'.op = "ReadAt"
       => /\ offset' = offset
          /\ (/\ ret.op = "ReadAt" /\ ret.len = ret'.len /\ ret.off = ret'.off
              /\ ret.err.kind = "nil" /\ ret'.err.kind = "nil")
             => (ret'.n = ret.n /\ ret'.data = ret.data)]_vars

\* A ReadAt served from the cache alone, with the cursor elsewhere.
C5_Witness ==
    /\ ReadAtInside
    /\ ret.n = 3
    /\ ret.fetched = <<>>
    /\ offset = 1
    /\ ret.off = 2

\* C6 as stated: with a cache of capacity k >= number_of_chunks, the first
\* full sequential pass makes exactly number_of_chunks source fetches and
\* the second pass none.
C6_OneFetchPerChunk ==
    (passDone /\ lruCap >= 1 /\ lruCap >= NumChunks) =>
        passFetches = (IF passNo = 1 THEN NumChunks ELSE 0)

\* C6 amended: with a cache of capacity k >= number_of_chunks, the first
\* full sequential pass makes exactly one source fetch per distinct chunk
\* hash (number_of_chunks of them when no hash repeats) and the second
\* pass none.
C6_OneFetchPerHash ==
    (passDone /\ lruCap >= 1 /\ lruCap >= NumChunks) =>
        passFetches = (IF passNo = 1 THEN Cardinality(ChunkHashes) ELSE 0)

C6_Witness ==
    /\ passDone
    /\ passNo = 2
    /\ passFetches = 0
    /\ NumChunks = 2
    /\ lruCap = 2
    /\ Cardinality(ChunkHashes) = 2

\* C7: with a cache of capacity k, 1 <= k < number_of_chunks, a sequential
\* pass never makes more than number_of_chunks source fetches, whatever the
\* buffer lengths.
C7_AtMostOneFetchPerChunk ==
    (lruCap >= 1 /\ lruCap < NumChunks) => passFetches <= NumChunks

\* A pass over three distinct chunks through a cache of one entry, with a
\* Read starting on a chunk boundary.
C7_Witness ==
    /\ passDone
    /\ lruCap = 1
    /\ NumChunks = 3
    /\ passFetches = 3

\* C8: with a cache of any capacity k >= 1, every cache entry holds the
\* bytes the source returns for its hash, and every Read or ReadAt that
\* succeeds returns the file bytes of its range.
C8_CacheNeverCorrupts ==
    lruCap >= 1 =>
        /\ \A i \in 1..Len(lru) : lru[i].value = Blob(lru[i].key)
        /\ Len(lru) <= lruCap
        /\ ((IsRead \/ IsReadAt) /\ ret.err.kind = "nil" /\ ret.n > 0)
           => ret.data = Range(ret.off, ret.n)

\* A ReadAt that fetched two chunks through a cache of one entry (the
\* second fetch evicting the first) after the cache had been filled.
C8_Witness ==
    /\ IsReadAt
    /\ lruCap = 1
    /\ Len(lru) = 1
    /\ Len(ret.fetched) = 2
    /\ ret.n = 3

\* C9 as stated: on a file of size > 0, ReadAt with a non-empty buffer at
\* offset = size returns end-of-file with zero bytes and accesses no chunk.
C9_ReadAtSizeIsEOF ==
    (IsReadAt /\ ret.len > 0 /\ size > 0 /\ ret.off = size) =>
        (ret.n = 0 /\ ret.err = ErrEOF /\ ret.accessed = <<>>)

\* C10 as stated: ReadAt with a non-empty buffer at an offset > size
\* returns end-of-file with zero bytes and does not abort.
C10_ReadAtPastSizeIsEOF ==
    (IsReadAt /\ ret.len > 0 /\ ret.off > size) =>
        (ret.n = 0 /\ ret.err = ErrEOF)

\* C11: a Read that fails on a fetch (an error of the store or a
\* cancellation) leaves the cursor where it was before the call and
\* reports zero bytes, also when chunks before the failing one were fetched
\* in the same call.
C11_FailedReadKeepsCursor ==
    (IsRead /\ ret.err.kind = "FetchFailed") =>
        (offset = ret.off /\ ret.n = 0 /\ ret.data = <<>>)

\* A Read cancelled on its third fetch, from a cursor inside the file.
C11_Witness ==
    /\ IsRead
    /\ ret.err = Err("FetchFailed", "C", "Cancelled")
    /\ ret.fetched = <<"A", "B", "C">>
    /\ ret.off = 1
    /\ offset = 1

\* The ReadAt of this step, made on the state before it with the source
\* behaving as src, gives what the step shows.
ReadAtStepUnder(src) ==
    \E o \in {ReadAtCall(lru, offset, src, ret'.len, ret'.off)} :
        /\ o.err = ret'.err
        /\ o.n = ret'.n
        /\ o.fetched = ret'.fetched
        /\ o.accessed = ret'.accessed
        /\ o.lru = lru'

\* C12: when the source fails a Get during a ReadAt, the call returns a
\* fetch failure that names the hash of the failing chunk and carries the
\* cause the source gave (the step is the one the source failing that hash
\* with that cause produces, and not the one another cause produces); the
\* failing Get is the last thing the call asks of the source (it is not
\* repeated and no later chunk is accessed), and no bytes are returned.
C12_FetchFailureNamesChunk ==
    [][(ret'.op = "ReadAt" /\ ret'.err.kind = "FetchFailed") =>
        LET f == ret'.fetched
            a == ret'.accessed
        IN  /\ Len(f) > 0 /\ f[Len(f)] = ret'.err.hash
            /\ \A i \in 1..(Len(f) - 1) : f[i] # ret'.err.hash
            /\ Len(a) > 0 /\ lmrange[a[Len(a)]].Value = ret'.err.hash
            /\ ret'.n = 0 /\ ret'.data = <<>>
            /\ \A c \in Causes :
                    ReadAtStepUnder([hash |-> ret'.err.hash, cause |-> c])
                        <=> (c = ret'.err.cause)]_vars

\* A ReadAt over three chunks whose second Get fails: the first chunk was
\* fetched, the third is never asked for.
C12_Witness ==
    /\ IsReadAt
    /\ [i \in 1..Len(lmrange) |-> lmrange[i].Value] = <<"A", "B", "C">>
    /\ ret.off = 0 /\ ret.len = 3
    /\ ret.err = Err("FetchFailed", "B", "Transient")
    /\ ret.fetched = <<"A", "B">>
    /\ ret.accessed = <<1, 2>>

\* The cursor a Seek(off, whence) from cursor cur is to give.
SeekTarget(cur, off, whence) ==
    CASE whence = SEEK_SET -> off
      [] whence = SEEK_CUR -> cur + off
      [] whence = SEEK_END -> size - off

\* C13: Seek with SEEK_SET, SEEK_CUR or SEEK_END returns the new cursor and
\* makes it the cursor: offset, cursor + offset, size - offset; and a Read
\* that follows Seek(k, SEEK_END) with 0 < k <= size returns the bytes from
\* size - k on, as many as the buffer and the k remaining bytes allow.
C13_SeekSetsAndReturnsCursor ==
    [][/\ (ret'.op = "Seek" /\ ret'.whence \in {SEEK_SET, SEEK_CUR, SEEK_END}) =>
            /\ ret'.err = ErrNil
            /\ ret'.n = SeekTarget(offset, ret'.off, ret'.whence)
            /\ offset' = ret'.n
       /\ (/\ ret.op = "Seek" /\ ret.whence = SEEK_END
           /\ ret.off > 0 /\ ret.off <= size
           /\ ret'.op = "Read" /\ ret'.len > 0 /\ ret'.err = ErrNil) =>
            /\ ret'.n = Min(ret'.len, ret.off)
            /\ ret'.data = Range(size - ret.off, ret'.n)
            /\ offset' = size - ret.off + ret'.n]_vars

\* Seek(3, SEEK_END) on a file of five bytes, from a cursor elsewhere: the
\* call returned 2 and the cursor is 2.
C13_Witness ==
    /\ ret.op = "Seek"
    /\ ret.whence = SEEK_END
    /\ ret.off = 3
    /\ size = 5
    /\ ret.n = 2
    /\ offset = 2
    /\ ret.err = ErrNil

\* C14 as stated: a Seek whose resulting cursor would be negative fails and
\* leaves the cursor where it was, and the cursor is never negative.
C14_NegativeSeekRejected ==
    [][/\ (/\ ret'.op = "Seek"
           /\ ret'.whence \in {SEEK_SET, SEEK_CUR, SEEK_END}
           /\ SeekTarget(offset, ret'.off, ret'.whence) < 0) =>
            (ret'.err.kind # "nil" /\ offset' = offset)
       /\ offset' >= 0]_vars

\* C15: a Seek whose whence is none of SEEK_SET, SEEK_CUR, SEEK_END fails
\* with the invalid-whence error and leaves the cursor and the cache as
\* they were.
C15_InvalidWhenceRejected ==
    [][(ret'.op = "Seek" /\ ret'.whence \notin {SEEK_SET, SEEK_CUR, SEEK_END}) =>
        /\ ret'.err = Err("InvalidWhence", "", "nil")
        /\ ret'.n = 0
        /\ offset' = offset
        /\ lru' = lru]_vars

\* Seek(1, 3) made with the cursor inside the file and a chunk cached.
C15_Witness ==
    /\ ret.op = "Seek"
    /\ ret.whence = 3
    /\ ret.off = 1
    /\ ret.err.kind = "InvalidWhence"
    /\ offset = 2
    /\ Len(lru) > 0

C17_ClosedReaderRefuses ==
    [][(ret.op = "Close" /\ ret'.op \in {"Read", "ReadAt", "Seek"}) =>
        /\ ret'.err.kind = "Closed"
        /\ ret'.fetched = <<>>
        /\ offset' = offset]_vars

\* C18: Close purges the cache and returns no error, with a cache and
\* without one, and changes nothing else; a Close that follows a Close
\* leaves the reader exactly as the first did.
C18_ClosePurgesIdempotent ==
    [][(ret'.op = "Close") =>
        /\ ret'.err = ErrNil
        /\ lru' = <<>>
        /\ UNCHANGED <<size, lmrange, offset, lruCap>>
        /\ (ret.op = "Close" => lru' = lru)]_vars

\* A reader with a cache of capacity two, read to the end of its three
\* chunks, then closed: the cache is empty.
C18_Witness ==
    /\ ret.op = "Close"
    /\ ret.err = ErrNil
    /\ lruCap = 2
    /\ lru = <<>>
    /\ NumChunks = 3
    /\ offset = size

\* The meta the reader was built from is well formed: the end offsets
\* strictly increase from above zero and the last one is the size (so no
\* chunk means size zero).
WellFormedMeta ==
    /\ \A i \in 1..Len(lmrange) :
            lmrange[i].Index > (IF i = 1 THEN 0 ELSE lmrange[i - 1].Index)
    /\ size = (IF Len(lmrange) = 0 THEN 0 ELSE lmrange[Len(lmrange)].Index)

\* C19 as stated: construction rejects a malformed meta with the
\* malformed-meta error, so that no reader exists over one.
C19_MalformedMetaRejected ==
    WellFormedMeta \/ (ret.op = "NewFile" /\ ret.err.kind = "MalformedMeta")

\* C20 as stated: whatever the meta and the answers of the source, Read
\* and ReadAt return bytes or an error and never abort.
C20_NeverPanics ==
    (ret.op \in {"Read", "ReadAt"}) => ret.err.kind # "panic"

\* C24: on the empty file (size 0, no chunks) a Read with a non-empty
\* buffer returns 0 bytes and end-of-file at every cursor, a ReadAt with a
\* non-empty buffer returns 0 bytes and end-of-file at every offset, 0
\* included; neither accesses the cache or the source nor moves the
\* cursor, however often the calls are made.
C24_EmptyFileIsEOF ==
    (size = 0 /\ NumChunks = 0 /\ ret.op \in {"Read", "ReadAt"} /\ ret.len > 0) =>
        /\ ret.n = 0 /\ ret.data = <<>>
        /\ ret.err = ErrEOF
        /\ ret.fetched = <<>> /\ ret.accessed = <<>>
        /\ lru = <<>>
        /\ IsRead => offset = ret.off

\* A ReadAt at offset 0 of the empty file, made with the cursor moved off
\* zero by an earlier Seek.
C24_Witness ==
    /\ size = 0 /\ NumChunks = 0
    /\ IsReadAt
    /\ ret.len > 0 /\ ret.off = 0
    /\ ret.err = ErrEOF
    /\ offset = 1

\* f occurs in a as a subsequence, matched from positions i of f and j of a.
RECURSIVE Embeds(_, _, _, _)
Embeds(f, a, i, j) ==
    IF i > Len(f) THEN TRUE
    ELSE IF j > Len(a) THEN FALSE
    ELSE IF f[i] = a[j] THEN Embeds(f, a, i + 1, j + 1)
    ELSE Embeds(f, a, i, j + 1)

\* C25: within one Read or ReadAt the chunks are accessed (looked up in
\* the cache, fetched from the source on a miss) in ascending file order:
\* the positions accessed are consecutive, each one higher than the one
\* before, so none is accessed twice, and the hashes asked of the source
\* are, in order, hashes of the chunks accessed, at most one per chunk.
C25_AscendingContiguousAccess ==
    (ret.op \in {"Read", "ReadAt"}) =>
        LET a == ret.accessed IN
        /\ \A k \in 2..Len(a) : a[k] = a[k - 1] + 1
        /\ \A k \in 1..Len(a) : a[k] \in 1..NumChunks
        /\ Len(ret.fetched) <= Len(a)
        /\ Embeds(ret.fetched, [k \in 1..Len(a) |-> lmrange[a[k]].Value], 1, 1)

\* A ReadAt across three chunks of which the middle one was cached: the
\* positions 1, 2, 3 were accessed, the first and the third fetched.
C25_Witness ==
    /\ IsReadAt
    /\ ret.accessed = <<1, 2, 3>>
    /\ ret.fetched = <<"A", "C">>
    /\ ret.err = ErrNil

\* C26 as stated: a Read or ReadAt whose offset is the end offset of a
\* chunk other than the last starts at the chunk after it; the chunk
\* ending at the offset is not accessed.
C26_BoundaryStartsNextChunk ==
    \A i \in 1..(NumChunks - 1) :
        (/\ ret.op \in {"Read", "ReadAt"}
         /\ ret.len > 0
         /\ ret.off = lmrange[i].Index) =>
            /\ Len(ret.accessed) > 0 => ret.accessed[1] = i + 1
            /\ \A k \in 1..Len(ret.accessed) : ret.accessed[k] # i

\* The position of the chunk that holds byte b of the file.
ChunkOf(b) == CHOOSE i \in 1..NumChunks :
                /\ lmrange[i].Index > b
                /\ \A j \in 1..(i - 1) : lmrange[j].Index <= b

\* The bytes a call with a buffer of plen at off is to deliver.
Want(plen, off) == Min(plen, size - off)

\* C27: a Read or ReadAt from inside the file stops once the bytes wanted
\* (the buffer length, or what is left of the file) are written: no chunk
\* after the one holding the last byte wanted is accessed, be it that the
\* range ends on a chunk boundary, at the file end or inside a chunk; and
\* a call that succeeds ends with exactly that chunk.
C27_StopsAtLastWantedChunk ==
    (/\ ret.op \in {"Read", "ReadAt"}
     /\ ret.len > 0
     /\ ret.off >= 0 /\ ret.off < size) =>
        LET last == ChunkOf(ret.off + Want(ret.len, ret.off) - 1)
            a    == ret.accessed
        IN  /\ \A k \in 1..Len(a) : a[k] <= last
            /\ ret.err = ErrNil => (Len(a) > 0 /\ a[Len(a)] = last)

\* A ReadAt of two bytes at offset 0 of a file of three chunks, the first
\* of two bytes: the range ends on the boundary and only the first chunk
\* was accessed.
C27_Witness ==
    /\ IsReadAt
    /\ NumChunks = 3
    /\ lmrange[1].Index = 2
    /\ ret.off = 0 /\ ret.len = 2
    /\ ret.n = 2
    /\ ret.accessed = <<1>>

\* C28: the cache never holds more entries than the capacity it was made
\* with (none without a cache), whatever calls were made, and never two
\* entries for one hash; and a chunk fetched is always put: after a call
\* that succeeded the hash fetched last is in the cache, older entries
\* having been evicted to make room.
C28_CacheBounded ==
    /\ Len(lru) <= lruCap
    /\ \A i, j \in 1..Len(lru) : lru[i].key = lru[j].key => i = j
    /\ (/\ ret.op \in {"Read", "ReadAt"}
        /\ ret.err = ErrNil
        /\ lruCap > 0
        /\ Len(ret.fetched) > 0) =>
            ret.fetched[Len(ret.fetched)] \in lruKeys(lru)

\* A call that fetched three distinct chunks into a cache of capacity two:
\* the cache is full and holds the last two.
C28_Witness ==
    /\ ret.op \in {"Read", "ReadAt"}
    /\ ret.err = ErrNil
    /\ ret.fetched = <<"A", "B", "C">>
    /\ lruCap = 2
    /\ Len(lru) = 2
    /\ lruKeys(lru) = {"B", "C"}

\* The hashes in the cache, most recently used first.
KeySeq(c) == [i \in 1..Len(c) |-> c[i].key]

Reverse(s) == [i \in 1..Len(s) |-> s[Len(s) + 1 - i]]

\* s without the later occurrences of its elements.
Dedup(s) ==
    LET keep == {i \in 1..Len(s) : \A j \in 1..(i - 1) : s[j] # s[i]}
    IN  [k \in 1..Cardinality(keep) |->
            s[CHOOSE i \in keep : Cardinality({j \in keep : j < i}) = k - 1]]

\* The hashes of the chunks the call of this step obtained, in order: all
\* those accessed, but for the one whose fetch failed.
ObtainedHashes ==
    LET a == ret'.accessed
        m == IF ret'.err.kind = "FetchFailed" THEN Len(a) - 1 ELSE Len(a)
    IN  [k \in 1..m |-> lmrange[a[k]].Value]

\* C29: the cache follows the chunk accesses: after every Read and ReadAt
\* it holds, most recent first, the lruCap most recently obtained distinct
\* hashes, those of this call before those cached earlier: a hit moves the
\* chunk to the front, a miss inserts the fetched chunk at the front, and
\* what falls out is what was accessed longest ago.
C29_CacheFollowsRecency ==
    [][(ret'.op \in {"Read", "ReadAt"}) =>
        IF lruCap = 0 THEN lru' = <<>>
        ELSE \E got \in {ObtainedHashes} :
             IF got = <<>> THEN lru' = lru
             ELSE \E recent \in {Dedup(Reverse(got) \o KeySeq(lru))} :
                    KeySeq(lru') = SubSeq(recent, 1, Min(lruCap, Len(recent)))]_vars

\* A ReadAt over three chunks with a cache of two that held the first two:
\* two hits, then a miss that evicts the chunk hit first.
C29_Witness ==
    /\ IsReadAt
    /\ lruCap = 2
    /\ ret.accessed = <<1, 2, 3>>
    /\ ret.fetched = <<"C">>
    /\ KeySeq(lru) = <<"C", "B">>

C22_SizeMismatchReported ==
    (ret.op = "GetFile") =>
        IF Len(out) # size
        THEN /\ ret.err.kind = "SizeMismatch"
             /\ ret.len = size
             /\ ret.n = Len(out)
        ELSE /\ ret.err = ErrNil
             /\ out = FileBytes

\* A restore of a file of five bytes that ended after two: the error
\* names 5 and 2.
C22_Witness ==
    /\ ret.op = "GetFile"
    /\ size = 5
    /\ Len(out) = 2
    /\ ret.err.kind = "SizeMismatch"
    /\ ret.len = 5 /\ ret.n = 2

\* C23 as stated: when a chunk fetch fails during the copy, GetFile
\* returns an error that carries that failure: the failing hash and the
\* cause the source gave.
C23_RestoreSurfacesFetchError ==
    [][(/\ ret.op = "Read" /\ ret.err.kind = "FetchFailed"
        /\ ret'.op = "GetFile") =>
            /\ ret'.err.kind = "FetchFailed"
            /\ ret'.err.hash = ret.err.hash
            /\ ret'.err.cause = ret.err.cause]_vars

\* C21: ReadAt calls running together on one File, interleaved at the Get
\* and Add of the shared cache and at the fetches, each return what they
\* return alone: a call that no fetch failed for returns the count, the
\* bytes and the error of the same ReadAt made by itself; a call a fetch
\* failed for returns no bytes and that failure; and the cursor stays
\* where it was.
C21_ConcurrentReadAtAsAlone ==
    /\ offset = 0
    /\ \A p \in Procs :
        (calls[p].pc = "done") =>
            IF calls[p].err.kind = "FetchFailed"
            THEN calls[p].n = 0 /\ calls[p].data = <<>>
            ELSE \E o \in {ReadAtCall(<<>>, offset, NoFault, calls[p].len, calls[p].off)} :
                    /\ calls[p].n = o.n
                    /\ calls[p].data = o.data
                    /\ calls[p].err = o.err

\* Two calls over the same three chunks and a cache of one entry, both
\* done with all five bytes, while an entry of theirs sits in the cache.
C21_Witness ==
    /\ lruCap = 1
    /\ NumChunks = 3
    /\ \A p \in Procs :
        /\ calls[p].pc = "done"
        /\ calls[p].off = 0 /\ calls[p].len = 3
        /\ calls[p].data = <<1, 2, 3>>
    /\ Len(lru) = 1

\* C31 as stated: at every cursor, the end of the file and beyond included,
\* Read(p) returns the count, the bytes and the end-of-file or error
\* outcome that ReadAt(p, cursor) returns from the same state under the
\* same behaviour of the source, and a Read that succeeds leaves the
\* cursor at the old cursor plus the count.
C31_ReadIsReadAtCursor ==
    [][(ret'.op = "Read") =>
        /\ ret'.err = ErrNil => offset' = offset + ret'.n
        /\ \A src \in Faults(ChunkHashes) :
            \E r \in {ReadCall(lru, offset, src, ret'.len)} :
                (/\ r.n = ret'.n /\ r.data = ret'.data /\ r.err = ret'.err
                 /\ r.fetched = ret'.fetched /\ r.lru = lru') =>
                \E a \in {ReadAtCall(lru, offset, src, ret'.len, offset)} :
                    /\ a.n = r.n
                    /\ a.data = r.data
                    /\ a.err.kind = r.err.kind]_vars

\* The behaviour of the source the last call met: the failure it returned,
\* none when it returned none.
ObservedSource ==
    IF ret.err.kind = "FetchFailed"
    THEN [hash |-> ret.err.hash, cause |-> ret.err.cause]
    ELSE NoFault

\* C32: whatever the capacity of its cache and whatever the cache holds,
\* a reader returns from every Read and ReadAt the count, the bytes and
\* the error that a reader built without a cache returns for the same
\* call at the same cursor from the same source, and leaves the cursor
\* where that reader leaves it; and without a cache every chunk accessed
\* is fetched from the source.
C32_CacheIsTransparent ==
    (ret.op \in {"Read", "ReadAt"}) =>
        /\ \E p \in {IF IsRead THEN PlainRead(ret.len, ret.off, ObservedSource)
                              ELSE PlainReadAt(ret.len, ret.off, ObservedSource)} :
                /\ ret.n = p.n
                /\ ret.data = p.data
                /\ ret.err = p.err
                /\ IsRead => offset = ret.off + p.n
        /\ lruCap = 0 =>
                ret.fetched = [k \in 1..Len(ret.accessed) |-> lmrange[ret.accessed[k]].Value]

\* A Read of three bytes from cursor 1 on a reader with a cache of two:
\* three chunks accessed, not all of them fetched.
C32_Witness ==
    /\ IsRead
    /\ lruCap = 2
    /\ ret.off = 1 /\ ret.len = 3
    /\ ret.data = <<2, 3, 4>>
    /\ ret.accessed = <<1, 2, 3>>
    /\ Len(ret.fetched) < 3
    /\ offset = 4

\* C33 as stated: without seeks, once the cursor is at the size every
\* further Read returns end-of-file without a fetch.
C33_EveryReadAtEndIsEOF ==
    [][(offset = size /\ ret'.op = "Read") =>
            /\ ret'.err = ErrEOF
            /\ ret'.fetched = <<>>]_vars

\* C33: without seeks the cursor starts at 0, stays within 0..size, never
\* decreases over any Read or ReadAt, failed or not, and once it is at the
\* size every further Read into a non-empty buffer returns end-of-file
\* without a cache access or a fetch, the cursor staying where it is.
C33_CursorMonotoneBounded ==
    /\ [](0 <= offset /\ offset <= size)
    /\ [][/\ offset' >= offset
          /\ ret'.op = "ReadAt" => offset' = offset
          /\ (offset = size /\ ret'.op = "Read" /\ ret'.len > 0) =>
                /\ ret'.n = 0
                /\ ret'.err = ErrEOF
                /\ ret'.fetched = <<>>
                /\ ret'.accessed = <<>>
                /\ offset' = offset]_vars

\* A Read into a non-empty buffer with the cursor at the end of a
\* three-chunk file.
C33_Witness ==
    /\ IsRead
    /\ Len(lmrange) = 3
    /\ ret.off = size /\ ret.len > 0
    /\ ret.err = ErrEOF
    /\ offset = size

\* C34: a Read or a ReadAt into a zero-length buffer returns 0 and no
\* error, accesses no chunk, fetches nothing, and leaves the cursor and
\* the cache as they were, whatever the size, the offset and the cursor.
C34_EmptyBufferIsNoOp ==
    [][(ret'.op \in {"Read", "ReadAt"} /\ ret'.len = 0) =>
            /\ ret'.n = 0
            /\ ret'.data = <<>>
            /\ ret'.err = ErrNil
            /\ ret'.accessed = <<>>
            /\ ret'.fetched = <<>>
            /\ offset' = offset
            /\ lru' = lru]_vars

\* A Read into a zero-length buffer with the cursor past the end.
C34_Witness ==
    /\ IsRead
    /\ ret.len = 0
    /\ size > 0
    /\ ret.off = size + 1
    /\ offset = size + 1
    /\ ret.err = ErrNil

\* C35: when rwFileHandle.Flush has returned, f.mu is unlocked, and a
\* failed upload has been returned as an error.
C35_FlushReleasesMutex ==
    (fret.op = "Flush" /\ fret.err # "Blocked") =>
        /\ ~file.mu
        /\ fret.upload = "failed" => fret.err # "nil"

\* Every handle returned has been released.
AllReleased == \A i \in 1..Len(handles) : ~handles[i].open

\* C36: once every handle returned by Create and Open has been released,
\* fds is 0, f.h is nil and every temp file made for the file has been
\* removed; while fds > 0 and a writable handle is open, f.h is that
\* handle.
C36_HandleLifecycle ==
    /\ (handles # <<>> /\ AllReleased) =>
            /\ file.fds = 0
            /\ file.h = 0
            /\ \A t \in 1..Len(tmps) : tmps[t] = "removed"
    /\ file.fds > 0 =>
            \A i \in 1..Len(handles) :
                (handles[i].open /\ handles[i].kind = "rw") => file.h = handles[i].tmp

\* C37: when a worker is back at the top of its loop after the body has
\* run on an item, deqFunc has been called exactly once for the item:
\* with true when the item was processed or already present, with false
\* when processing failed.
C37_ItemSettledOnce ==
    \A w \in Workers :
        (workers[w].pc \in {"top", "stopped"} /\ workers[w].outcome # "none") =>
            workers[w].settled = <<workers[w].outcome \in {"done", "exists"}>>

\* C38: when BlobWaitingForDownload has found the hash in the download
\* index and downloaded the blob, the entry has left the index, the item
\* has left the download queue and the download worker does not hold it.
C38_DownloadedOnce ==
    (s3ret.op = "BlobWaitingForDownload" /\ s3ret.found) =>
        /\ \A x \in S3Hashes : downloadIndex[x] # s3ret.id
        /\ \A k \in 1..Len(queues["download"]) : queues["download"][k].id # s3ret.id
        /\ workers["download"].pc \in {"got", "work"} =>
                workers["download"].item.id # s3ret.id

AllStopped == \A w \in Workers : workers[w].pc = "stopped"

\* C39: under fair scheduling a Close that has been called returns; each
\* worker receives at most one stop signal and, once the three sends are
\* through, exactly one; then all three workers have left their loops
\* and the wait group is at 0, so that no worker is in its body when it
\* is awaited; and the queues and the index are closed only after that.
C39_CloseReturns ==
    /\ [](\A w \in Workers : workers[w].stops <= 1
                              /\ (workers[w].stops = 1 <=> workers[w].pc = "stopped"))
    /\ [](stop.pc \in {"wait", "closing", "done"} =>
                /\ AllStopped
                /\ wg = 0)
    /\ [](closed => AllStopped /\ stop.pc = "done")
    /\ (stop.pc = "send" ~> (stop.pc = "done" /\ closed))

\* Close has returned after the workers have done work: the upload
\* worker has uploaded an item and the delete worker has failed on one.
C39_Witness ==
    /\ stop.pc = "done"
    /\ closed
    /\ AllStopped
    /\ workers["upload"].outcome = "done"
    /\ workers["delete"].outcome = "failed"

\* The number of places of a sequence that hold x.
Count(s, x) == Cardinality({k \in 1..Len(s) : s[k] = x})

\* The refs the script marked.
Marked == {gc.script[k] : k \in 1..Len(gc.script)}

\* C40: when GC has returned nil, every entry of the remoteRefs it was
\* given has produced exactly one event, SyncRemoteBlob for the ref and
\* its remote ref if the script marked the ref, DeleteRemoteBlob for its
\* remote ref if not, and no other event was produced; every marked ref
\* without an entry was read from the stash once and put into the root
\* blob store once, however often it was marked, and no other ref was.
C40_GCEventsExactlyOnce ==
    (gc.pc = "done" /\ gc.err = "nil") =>
        /\ \A k \in DOMAIN gc.given :
                Count(gc.events, IF k \in Marked THEN SyncRemoteBlob(k, gc.given[k])
                                                 ELSE DeleteRemoteBlob(gc.given[k])) = 1
        /\ Len(gc.events) = Cardinality(DOMAIN gc.given)
        /\ \A r \in Marked \ DOMAIN gc.given :
                Count(gc.gets, r) = 1 /\ Count(gc.puts, r) = 1
        /\ Len(gc.puts) = Cardinality(Marked \ DOMAIN gc.given)
        /\ gc.gets = gc.puts

\* GC has returned nil for a script that marked r1 once and r2 twice,
\* with remote entries for r1 and r3: one sync, one delete, one copy.
C40_Witness ==
    /\ gc.pc = "done" /\ gc.err = "nil"
    /\ gc.script = <<"r1", "r2", "r2">>
    /\ DOMAIN gc.given = {"r1", "r3"}
    /\ gc.events = <<SyncRemoteBlob("r1", remoteRefOf("r1")),
                     DeleteRemoteBlob(remoteRefOf("r3"))>>
    /\ gc.puts = <<"r2">>

====
